---------------------------- MODULE Spec2Model ----------------------------
(***************************************************************************)
(* Task-identity resolution and time-block scheduling engine of the       *)
(* task-extender timeline (TaskManager, TimeBlockManager, TaskDragManager, *)
(* TimelineView).                                                          *)
(*                                                                         *)
(* Strings are sequences of UTF-16 code units, as JavaScript sees them:    *)
(* length, charCodeAt, includes, replace and the regular expressions of    *)
(* the source are computed on the code units.  null / undefined strings    *)
(* are the sentinel Null.                                                  *)
(*                                                                         *)
(* A value a handler computes once and uses several times is passed to a   *)
(* continuation operator (named ...With, ...At, ...From) as a parameter.   *)
(***************************************************************************)
EXTENDS Integers, Sequences, FiniteSets, TLC

(***************************************************************************)
(* Strings                                                                 *)
(***************************************************************************)
Null == <<-1>>
EmptyStr == <<>>

\* JavaScript truthiness of a string | null value
Truthy(s) == s # Null /\ s # EmptyStr

Min2(a, b) == IF a <= b THEN a ELSE b
Max2(a, b) == IF a >= b THEN a ELSE b

\* the least element of a set of positions, 0 when it is empty
FirstIndex(S) == IF S = {} THEN 0 ELSE CHOOSE i \in S : \A j \in S : i <= j

OrElse(i, default) == IF i = 0 THEN default ELSE i

\* p occurs in s at position i (1-based)
OccursAt(s, i, p) ==
    /\ i >= 1
    /\ i + Len(p) - 1 <= Len(s)
    /\ \A k \in 1..Len(p) : s[i + k - 1] = p[k]

\* String.prototype.indexOf, 1-based; 0 when absent
IndexOf(s, p) == FirstIndex({i \in 1..(Len(s) - Len(p) + 1) : OccursAt(s, i, p)})

\* String.prototype.includes
Includes(s, p) == \E i \in 1..(Len(s) - Len(p) + 1) : OccursAt(s, i, p)

IsSpace(c) == c = 32 \/ c = 9

\* String.prototype.trim
RECURSIVE TrimLeft(_)
TrimLeft(s) == IF s # <<>> /\ IsSpace(Head(s)) THEN TrimLeft(Tail(s)) ELSE s

RECURSIVE TrimRight(_)
TrimRight(s) ==
    IF s # <<>> /\ IsSpace(s[Len(s)]) THEN TrimRight(SubSeq(s, 1, Len(s) - 1)) ELSE s

Trim(s) == TrimRight(TrimLeft(s))

\* The replacement patterns String.prototype.replace expands in a replacement
\* string when the pattern has no capture group: $$ $& $` $'
\* what the pattern $c stands for, and how many code units of r it takes
Dollar(c, matched, before, after) ==
    IF c = 36 THEN [text |-> <<36>>, taken |-> 2]
    ELSE IF c = 38 THEN [text |-> matched, taken |-> 2]
    ELSE IF c = 96 THEN [text |-> before, taken |-> 2]
    ELSE IF c = 39 THEN [text |-> after, taken |-> 2]
    ELSE [text |-> <<36>>, taken |-> 1]

RECURSIVE ExpandReplacement(_, _, _, _)
ExpandFrom(r, matched, before, after, d) ==
    d.text \o ExpandReplacement(SubSeq(r, d.taken + 1, Len(r)), matched, before, after)

ExpandReplacement(r, matched, before, after) ==
    IF r = <<>> THEN <<>>
    ELSE ExpandFrom(r, matched, before, after,
                    IF Head(r) = 36 /\ Len(r) >= 2
                    THEN Dollar(r[2], matched, before, after)
                    ELSE [text |-> <<Head(r)>>, taken |-> 1])

ReplaceBetween(r, p, before, after) ==
    before \o ExpandReplacement(r, p, before, after) \o after

ReplaceAt(s, p, r, i) ==
    IF i = 0 THEN s
    ELSE ReplaceBetween(r, p, SubSeq(s, 1, i - 1), SubSeq(s, i + Len(p), Len(s)))

\* s.replace(p, r) with a string pattern: first occurrence only
ReplaceFirst(s, p, r) == ReplaceAt(s, p, r, IndexOf(s, p))

(***************************************************************************)
(* Literals of the source, as code units                                   *)
(***************************************************************************)
Unchecked == <<45, 32, 91, 32, 93>>          \* "- [ ]"
Checked == <<45, 32, 91, 120, 93>>           \* "- [x]"
EmojiId == <<55356, 56724>>                  \* the inline id marker
EmojiEstimate == <<9201, 65039>>             \* the estimate marker
EmojiDone == <<9989>>                        \* the completion-date marker
EmojiDue == <<55357, 56517>>                 \* the due-date marker
TaskPrefix == <<116, 97, 115, 107, 95>>      \* "task_"

\* METADATA_EMOJI_PATTERN: the alternatives, in the order of the source
METADATA_EMOJI_PATTERN ==
    << <<55357, 56517>>, <<9989>>, <<55356, 56724>>, <<55357, 56541>>, <<9195>>,
       <<55357, 56636>>, <<55357, 56637>>, <<9196>>, <<55357, 56524>>, <<9889>>,
       <<10133>>, <<9203>>, <<55357, 56548>>, <<55357, 56549>>, <<55357, 56484>>,
       <<10071>>, <<10060>>, <<10004, 65039>>, <<9200>>, <<55357, 56577>>,
       <<55357, 56578>>, <<55357, 57067>>, <<55357, 57068>>, <<55357, 56525>>,
       <<55357, 56656>>, <<55357, 56589>>, <<55356, 57263>>, <<55356, 57259>>,
       <<55357, 56495>>, <<55357, 56421>>, <<55357, 56420>>, <<55357, 56523>>,
       <<9997, 65039>>, <<55357, 56393>>, <<55357, 56392>>, <<9888, 65039>>,
       <<9201, 65039>> >>

AlternativeLen(pattern, a) == IF a = 0 THEN 0 ELSE Len(pattern[a])

FirstAlternativeLen(pattern, s, i) ==
    AlternativeLen(pattern, FirstIndex({a \in 1..Len(pattern) : OccursAt(s, i, pattern[a])}))

\* length of the first alternative of METADATA_EMOJI_PATTERN matching at i; 0 if none
EmojiLenAt(s, i) == FirstAlternativeLen(METADATA_EMOJI_PATTERN, s, i)

(***************************************************************************)
(* Canonical content: TaskManager.stripTaskMetadata                        *)
(***************************************************************************)
\* .replace(/^- \[[ x]\] /, '')
StripCheckbox(s) ==
    IF OccursAt(s, 1, Unchecked \o <<32>>) \/ OccursAt(s, 1, Checked \o <<32>>)
    THEN SubSeq(s, 7, Len(s))
    ELSE s

\* first position j >= i where an emoji of the pattern starts, or Len(s)+1
\* (the lazy  .*?(?=emoji|$)  stops there)
NextEmojiOrEnd(s, i) == OrElse(FirstIndex({j \in i..Len(s) : EmojiLenAt(s, j) > 0}), Len(s) + 1)

\* .replace(/(?:emoji) .*?(?=(?:emoji)|$)/g, '')
RECURSIVE RemoveMetadataFrom(_, _)
RemoveMetadataAt(s, i, n) ==
    IF n > 0 /\ i + n <= Len(s) /\ s[i + n] = 32
    THEN RemoveMetadataFrom(s, NextEmojiOrEnd(s, i + n + 1))
    ELSE <<s[i]>> \o RemoveMetadataFrom(s, i + 1)

RemoveMetadataFrom(s, i) ==
    IF i > Len(s) THEN <<>> ELSE RemoveMetadataAt(s, i, EmojiLenAt(s, i))

stripTaskMetadata(taskText) == Trim(RemoveMetadataFrom(StripCheckbox(taskText), 1))

(***************************************************************************)
(* TaskManager.generateHash: 32-bit rolling hash, kept in two 16-bit limbs *)
(***************************************************************************)
Limbs(hi, lo) == <<(hi + (lo \div 65536)) % 65536, lo % 65536>>

\* hash = ((hash << 5) - hash) + char; hash = hash & hash
HashStep(h, c) == Limbs(31 * h[1], 31 * h[2] + c)

RECURSIVE HashLoop(_, _, _)
HashNext(input, i, next) == IF next[1] >= 0 THEN HashLoop(input, i + 1, next) ELSE next

HashLoop(input, i, h) ==
    IF i > Len(input) THEN h ELSE HashNext(input, i, HashStep(h, input[i]))

\* Math.abs of the signed 32-bit value held in the limbs
AbsLimbs(h) ==
    IF h[1] < 32768 THEN h
    ELSE IF h[2] = 0 THEN <<65536 - h[1], 0>>
    ELSE <<65535 - h[1], 65536 - h[2]>>

Base36Digit(d) == IF d < 10 THEN 48 + d ELSE 87 + d

RECURSIVE ToBase36(_)
ToBase36(n) ==
    IF n < 36 THEN <<Base36Digit(n)>> ELSE ToBase36(n \div 36) \o <<Base36Digit(n % 36)>>

\* Number.prototype.toString(36) of the absolute value (2^31 is "zik0zk")
AbsToString36(a) ==
    IF a[1] >= 32768 THEN <<122, 105, 107, 48, 122, 107>>
    ELSE ToBase36(a[1] * 65536 + a[2])

generateHash(input) == TaskPrefix \o AbsToString36(AbsLimbs(HashLoop(input, 1, <<0, 0>>)))

(***************************************************************************)
(* TaskManager.levenshteinDistance and areTasksSimilar                     *)
(***************************************************************************)
\* dp[i][j] from dp[i-1][j-1] (diag), dp[i-1][j] (up) and dp[i][j-1] (left)
LevCell(same, diag, up, left) == IF same THEN diag ELSE 1 + Min2(up, Min2(left, diag))

\* Rows are 1-based sequences holding dp[i][j] at index j+1.  The loops over j
\* and over i are evaluated by halving their ranges (the cells and rows are
\* computed in the order of the loops, each from the same neighbours), which
\* keeps the depth of the evaluation logarithmic in the lengths.

\* the cells dp[i][lo..hi], given the row dp[i-1] and left = dp[i][lo-1]
RECURSIVE LevCells(_, _, _, _, _, _)
LevJoin(prev, c, str2, hi, first, mid) ==
    first \o LevCells(prev, c, str2, mid + 1, hi, first[Len(first)])

LevCells(prev, c, str2, lo, hi, left) ==
    IF lo = hi THEN <<LevCell(c = str2[lo], prev[lo], prev[lo + 1], left)>>
    ELSE LevJoin(prev, c, str2, hi,
                 LevCells(prev, c, str2, lo, (lo + hi) \div 2, left), (lo + hi) \div 2)

\* the row dp[i][0..n] from the row dp[i-1][0..n]; dp[i][0] = i
LevRow(prev, c, str2, i) ==
    IF Len(str2) = 0 THEN <<i>> ELSE <<i>> \o LevCells(prev, c, str2, 1, Len(str2), i)

\* the row dp[hi] from prev = dp[lo-1]
RECURSIVE LevRows(_, _, _, _, _)
LevRowsNext(str1, str2, lo, hi, row) ==
    IF Len(row) >= 0 THEN LevRows(str1, str2, lo, hi, row) ELSE row

LevRows(str1, str2, lo, hi, prev) ==
    IF lo > hi THEN prev
    ELSE IF lo = hi THEN LevRow(prev, str1[lo], str2, lo)
    ELSE LevRowsNext(str1, str2, ((lo + hi) \div 2) + 1, hi,
                     LevRows(str1, str2, lo, (lo + hi) \div 2, prev))

levenshteinDistance(str1, str2) ==
    LevRows(str1, str2, 1, Len(str1), [j \in 1..(Len(str2) + 1) |-> j - 1])[Len(str2) + 1]

\* the threshold without its upper bound of 7
MaxDistanceUncapped(text1, text2) == Max2(Len(text1), Len(text2)) \div 5

\* Math.min(Math.floor(Math.max(len1, len2) * 0.2), 7)
MaxDistance(text1, text2) == Min2(Max2(Len(text1), Len(text2)) \div 5, 7)

areTasksSimilar(text1, text2) ==
    levenshteinDistance(text1, text2) <= MaxDistance(text1, text2)

(***************************************************************************)
(* TaskParser                                                              *)
(***************************************************************************)
IsDigit(c) == c >= 48 /\ c <= 57

\* first index >= i that is not whitespace (\s*)
RECURSIVE SkipSpaces(_, _)
SkipSpaces(s, i) == IF i <= Len(s) /\ IsSpace(s[i]) THEN SkipSpaces(s, i + 1) ELSE i

\* first index >= i that is not a digit (\d+ taken greedily)
RECURSIVE SkipDigits(_, _)
SkipDigits(s, i) == IF i <= Len(s) /\ IsDigit(s[i]) THEN SkipDigits(s, i + 1) ELSE i

\* parseInt of the digits s[i..j-1]
RECURSIVE ParseInt(_, _, _)
ParseInt(s, i, j) ==
    IF i >= j THEN 0 ELSE ParseInt(s, i, j - 1) * 10 + (s[j - 1] - 48)

NumberUnitAt(s, i, u, j) ==
    IF j > i /\ j <= Len(s) /\ s[j] = u
    THEN [value |-> ParseInt(s, i, j), next |-> j + 1]
    ELSE [value |-> 0, next |-> i]

\* the optional group (?:(\d+)u)? at position i: value ('0' when absent) and
\* the position after it
NumberUnit(s, i, u) == NumberUnitAt(s, i, u, SkipDigits(s, i))

NoEstimate == [present |-> FALSE, days |-> 0, hours |-> 0, minutes |-> 0, totalMinutes |-> 0]

Estimate(days, hours, minutes) ==
    [present |-> TRUE, days |-> days, hours |-> hours, minutes |-> minutes,
     totalMinutes |-> (days * 24 * 60) + (hours * 60) + minutes]

EstimateM(d, h, m) == Estimate(d.value, h.value, m.value)
EstimateH(text, d, h) == EstimateM(d, h, NumberUnit(text, SkipSpaces(text, h.next), 109))
EstimateD(text, d) == EstimateH(text, d, NumberUnit(text, SkipSpaces(text, d.next), 104))

EstimateAt(text, at) ==
    IF at = 0 THEN NoEstimate
    ELSE EstimateD(text, NumberUnit(text, SkipSpaces(text, at + Len(EmojiEstimate)), 100))

\* /EMOJI\s*(?:(\d+)d)?\s*(?:(\d+)h)?\s*(?:(\d+)m)?/ : matches at the first marker
parseTimeEstimate(text) == EstimateAt(text, IndexOf(text, EmojiEstimate))

\* \d{4}-\d{2}-\d{2} at position i
DateAt(s, i) ==
    /\ i + 9 <= Len(s)
    /\ \A k \in {0, 1, 2, 3, 5, 6, 8, 9} : IsDigit(s[i + k])
    /\ s[i + 4] = 45 /\ s[i + 7] = 45

TenFrom(text, d) == SubSeq(text, d, d + 9)

DateOfMatch(text, emoji, i) ==
    IF i = 0 THEN Null ELSE TenFrom(text, SkipSpaces(text, i + Len(emoji)))

\* /EMOJI\s*(\d{4}-\d{2}-\d{2})/ : the captured date of the first match, or Null
ParseDate(text, emoji) ==
    DateOfMatch(text, emoji,
                FirstIndex({i \in 1..Len(text) :
                              /\ OccursAt(text, i, emoji)
                              /\ DateAt(text, SkipSpaces(text, i + Len(emoji)))}))

\* settings.originalDateEmoji (DEFAULT_SETTINGS)
originalDateEmoji == <<55357, 56523>>

parseTask(taskText) ==
    [originalDate |-> ParseDate(taskText, originalDateEmoji),
     timeEstimate |-> parseTimeEstimate(taskText),
     dueDate |-> ParseDate(taskText, EmojiDue),
     completed |-> Includes(taskText, Checked)]

(***************************************************************************)
(* JavaScript Map: insertion-ordered, as a sequence of [key, val]          *)
(***************************************************************************)
MapKeys(m) == {m[i].key : i \in 1..Len(m)}
MapHas(m, k) == \E i \in 1..Len(m) : m[i].key = k
\* the position of key k, 0 when absent
MapIndex(m, k) == FirstIndex({i \in 1..Len(m) : m[i].key = k})
MapGet(m, k) == m[MapIndex(m, k)].val

\* the sequence s with v at position i
SeqSet(s, i, v) == SubSeq(s, 1, i - 1) \o <<v>> \o SubSeq(s, i + 1, Len(s))

MapSetAt(m, k, v, i) ==
    IF i # 0 THEN SeqSet(m, i, [key |-> k, val |-> v])
    ELSE Append(m, [key |-> k, val |-> v])

MapSet(m, k, v) == MapSetAt(m, k, v, MapIndex(m, k))

MapDelete(m, k) == SelectSeq(m, LAMBDA e : e.key # k)

(***************************************************************************)
(* Documents.  A document is its lines followed by the fenced timeBlocks   *)
(* section (where saveTimeBlocks appends it).  The section holds the       *)
(* parsed JSON: an insertion-ordered object blockId -> block, each block   *)
(* with tasks [id, text].  Times are minutes since midnight, so 9.25 h is  *)
(* 555; a multiple of a quarter hour is a multiple of 15.                  *)
(***************************************************************************)
NoSection == [present |-> FALSE, valid |-> FALSE, data |-> <<>>]

Quote == <<34>>
JsonString(s) == IF s = Null THEN <<110, 117, 108, 108>> ELSE Quote \o s \o Quote

\* the lines of JSON.stringify(data, null, 2) that carry strings
JsonTaskLine(task) ==
    << <<32, 32, 32, 32, 32, 32, 32, 32, 34, 105, 100, 34, 58, 32>>
          \o JsonString(task.id) \o <<44>>,
       <<32, 32, 32, 32, 32, 32, 32, 32, 34, 116, 101, 120, 116, 34, 58, 32>>
          \o JsonString(task.text) >>

RECURSIVE JsonTaskLines(_)
JsonTaskLines(tasks) ==
    IF tasks = <<>> THEN <<>> ELSE JsonTaskLine(Head(tasks)) \o JsonTaskLines(Tail(tasks))

JsonBlockLine(key, block) ==
    << <<32, 32, 34>> \o key \o <<34, 58, 32, 123>>,
       <<32, 32, 32, 32, 34, 105, 100, 34, 58, 32>> \o JsonString(block.id) \o <<44>>,
       <<32, 32, 32, 32, 34, 116, 105, 116, 108, 101, 34, 58, 32>>
          \o JsonString(block.title) \o <<44>> >>
    \o JsonTaskLines(block.tasks)

RECURSIVE JsonBlockLines(_)
JsonBlockLines(data) ==
    IF data = <<>> THEN <<>>
    ELSE JsonBlockLine(Head(data).key, Head(data).val) \o JsonBlockLines(Tail(data))

SectionLines(section) ==
    IF section.present /\ section.valid THEN JsonBlockLines(section.data) ELSE <<>>

\* content.split('\n')
SplitLines(content) == content.lines \o SectionLines(content.section)

AnyIncludes(lines, s) == \E i \in 1..Len(lines) : Includes(lines[i], s)

\* content.includes(s), for s without a line break
FileIncludes(content, s) == s = <<>> \/ AnyIncludes(SplitLines(content), s)

(***************************************************************************)
(* TaskManager: identities                                                 *)
(***************************************************************************)
RECURSIVE ToDecimal(_)
ToDecimal(n) == IF n < 10 THEN <<48 + n>> ELSE ToDecimal(n \div 10) \o <<48 + (n % 10)>>

Bar == <<124>>

TaskIdentity(identifier, taskText, filePath, lineNumber) ==
    [identifier |-> identifier,
     originalContent |-> taskText,
     metadata |-> parseTask(taskText),
     filePath |-> filePath,
     lineNumber |-> lineNumber]

\* getTaskIdentity(taskText, filePath = '', lineNumber = 0)
getTaskIdentity(taskText, filePath, lineNumber) ==
    TaskIdentity(generateHash(stripTaskMetadata(taskText) \o Bar \o filePath
                              \o Bar \o ToDecimal(lineNumber)),
                 taskText, filePath, lineNumber)

generateTaskIdentity(taskText, filePath, lineNumber) ==
    TaskIdentity(generateHash(stripTaskMetadata(taskText) \o Bar \o filePath),
                 taskText, filePath, lineNumber)

\* addIdToTask
addIdToTask(taskText) ==
    IF Includes(taskText, EmojiId) THEN taskText
    ELSE Trim(taskText) \o <<32>> \o EmojiId \o <<32>> \o generateHash(taskText)

(***************************************************************************)
(* TaskManager: the registry.  tm = [taskCache, lineTaskMap, fileCache]    *)
(***************************************************************************)
LineKey(filePath, lineNumber) == <<filePath, lineNumber>>

FnSet(f, k, v) == [x \in DOMAIN f \cup {k} |-> IF x = k THEN v ELSE f[x]]
FnDelete(f, k) == [x \in DOMAIN f \ {k} |-> f[x]]

SimilarToEntry(strippedContent, task) ==
    areTasksSimilar(strippedContent, stripTaskMetadata(task.originalContent))

\* Case 1: the identifier lineTaskMap holds for the line, when its task is similar
MatchAtLine(cache, previousTaskId, strippedContent) ==
    IF Truthy(previousTaskId) /\ MapHas(cache, previousTaskId)
    THEN IF SimilarToEntry(strippedContent, MapGet(cache, previousTaskId))
         THEN MapIndex(cache, previousTaskId)
         ELSE 0
    ELSE 0

\* Case 2: the first similar task of the same file
MatchInFile(cache, filePath, strippedContent) ==
    FirstIndex({i \in 1..Len(cache) :
                  /\ cache[i].val.filePath = filePath
                  /\ SimilarToEntry(strippedContent, cache[i].val)})

\* this.fileCache.get(task.filePath)?.includes(task.originalContent)
StillInItsFile(fileCache, task) ==
    /\ task.filePath \in DOMAIN fileCache
    /\ FileIncludes(fileCache[task.filePath], task.originalContent)

\* Case 3: the first similar task whose line is gone from its (cached) file
MatchMoved(tm, strippedContent) ==
    FirstIndex({i \in 1..Len(tm.taskCache) :
                  /\ ~ StillInItsFile(tm.fileCache, tm.taskCache[i].val)
                  /\ SimilarToEntry(strippedContent, tm.taskCache[i].val)})

FirstCaseMovedFirst(case1, case2, tm, strippedContent) ==
    IF case1 # 0 THEN case1
    ELSE IF MatchMoved(tm, strippedContent) # 0 THEN MatchMoved(tm, strippedContent)
    ELSE case2

FirstCase(case1, case2, tm, strippedContent) ==
    IF case1 # 0 THEN case1
    ELSE IF case2 # 0 THEN case2
    ELSE MatchMoved(tm, strippedContent)

MatchStripped(tm, strippedContent, filePath, lk) ==
    FirstCase(MatchAtLine(tm.taskCache,
                          IF lk \in DOMAIN tm.lineTaskMap THEN tm.lineTaskMap[lk] ELSE Null,
                          strippedContent),
              MatchInFile(tm.taskCache, filePath, strippedContent),
              tm, strippedContent)

\* findMatchingTask: index of the matching entry in taskCache, 0 for undefined
findMatchingTask(tm, taskText, filePath, lineNumber) ==
    MatchStripped(tm, stripTaskMetadata(taskText), filePath, LineKey(filePath, lineNumber))

UpdatedTask(task, newContent, filePath, lineNumber) ==
    [task EXCEPT !.originalContent = newContent,
                 !.metadata = parseTask(newContent),
                 !.filePath = filePath,
                 !.lineNumber = lineNumber]

UpdateEntry(tm, identifier, task, newContent, filePath, lineNumber) ==
    [tm EXCEPT !.taskCache = MapSet(tm.taskCache, identifier,
                                    UpdatedTask(task, newContent, filePath, lineNumber)),
               !.lineTaskMap =
                   FnSet(IF task.filePath # <<>> /\ task.lineNumber # 0
                         THEN FnDelete(tm.lineTaskMap, LineKey(task.filePath, task.lineNumber))
                         ELSE tm.lineTaskMap,
                         LineKey(filePath, lineNumber), identifier)]

updateTaskContent(tm, identifier, newContent, filePath, lineNumber) ==
    IF ~ MapHas(tm.taskCache, identifier) THEN tm
    ELSE UpdateEntry(tm, identifier, MapGet(tm.taskCache, identifier), newContent,
                     filePath, lineNumber)

Register(tm, taskIdentity) ==
    [tm |-> [tm EXCEPT !.taskCache = MapSet(tm.taskCache, taskIdentity.identifier,
                                            taskIdentity),
                       !.lineTaskMap = FnSet(tm.lineTaskMap,
                                             LineKey(taskIdentity.filePath,
                                                     taskIdentity.lineNumber),
                                             taskIdentity.identifier)],
     identifier |-> taskIdentity.identifier]

UpdateExisting(tm, identifier, taskText, filePath, lineNumber) ==
    [tm |-> updateTaskContent(tm, identifier, taskText, filePath, lineNumber),
     identifier |-> identifier]

CreateOrUpdate(tm, taskText, filePath, lineNumber, found) ==
    IF found # 0
    THEN UpdateExisting(tm, tm.taskCache[found].val.identifier, taskText, filePath, lineNumber)
    ELSE Register(tm, generateTaskIdentity(taskText, filePath, lineNumber))

\* createTask: the registry afterwards and the identifier of the returned identity
createTask(tm, taskText, filePath, lineNumber) ==
    CreateOrUpdate(tm, taskText, filePath, lineNumber,
                   findMatchingTask(tm, taskText, filePath, lineNumber))

\* line.match(/^- \[[ x]\]/)
IsChecklistLine(line) == OccursAt(line, 1, Unchecked) \/ OccursAt(line, 1, Checked)

\* the loop of processFile over the lines: registry and the identifiers matched
RECURSIVE ProcessLines(_, _, _, _, _)
ProcessNext(r, lines, filePath, lineIndex, matched) ==
    IF Len(r.tm.taskCache) >= 0
    THEN ProcessLines(r.tm, lines, filePath, lineIndex + 1, matched \cup {r.identifier})
    ELSE r

ProcessLines(tm, lines, filePath, lineIndex, matched) ==
    IF lineIndex > Len(lines) THEN [tm |-> tm, matched |-> matched]
    ELSE IF IsChecklistLine(lines[lineIndex])
         THEN ProcessNext(createTask(tm, lines[lineIndex], filePath, lineIndex),
                          lines, filePath, lineIndex, matched)
         ELSE ProcessLines(tm, lines, filePath, lineIndex + 1, matched)

\* removeTask
removeTask(tm, taskId) == [tm EXCEPT !.taskCache = MapDelete(tm.taskCache, taskId)]

\* for (const taskId of previousTasksInFile): remove it when it is still registered
\* with this file
RemoveStale(tm, ids, filePath) ==
    [tm EXCEPT !.taskCache =
        SelectSeq(tm.taskCache,
                  LAMBDA e : ~ (e.key \in ids /\ e.val.filePath = filePath))]

PreviousTasksInFile(tm, filePath) ==
    {tm.taskCache[i].val.identifier :
        i \in {j \in 1..Len(tm.taskCache) : tm.taskCache[j].val.filePath = filePath}}

PassResult(pass, previous, filePath) ==
    [tm |-> RemoveStale(pass.tm, previous \ pass.matched, filePath),
     matched |-> pass.matched,
     previous |-> previous]

ProcessCached(tm0, filePath, lines) ==
    PassResult(ProcessLines(tm0, lines, filePath, 1, {}),
               PreviousTasksInFile(tm0, filePath), filePath)

\* processFile on the content read from the vault: the registry afterwards, the
\* identifiers returned by createTask during the pass and previousTasksInFile
\* as it was before the loop
processFile(tm, filePath, content) ==
    ProcessCached([tm EXCEPT !.fileCache = FnSet(tm.fileCache, filePath, content)],
                  filePath, SplitLines(content))

\* findTaskByContent: the first similar entry in insertion order (index, 0 if none)
ByContent(cache, strippedContent) ==
    FirstIndex({i \in 1..Len(cache) : SimilarToEntry(strippedContent, cache[i].val)})

findTaskByContent(tm, taskText) == ByContent(tm.taskCache, stripTaskMetadata(taskText))

(***************************************************************************)
(* TimeBlockManager: the store.  timeBlocks is a Map blockId -> TimeBlock. *)
(* An element of TimeBlock.tasks is either an object (a TaskIdentity copy  *)
(* with a status, as loadTimeBlocks builds it) or a bare string (as        *)
(* TaskDragManager.handleTaskDrop pushes it).                              *)
(***************************************************************************)
NORMAL == "normal"
FOUND_BY_CONTENT == "found-by-content"
NOT_FOUND == "not-found"

\* { ...taskIdentity, status }
ObjEntry(taskIdentity, status) ==
    [kind |-> "obj",
     identifier |-> taskIdentity.identifier,
     originalContent |-> taskIdentity.originalContent,
     metadata |-> taskIdentity.metadata,
     filePath |-> taskIdentity.filePath,
     lineNumber |-> taskIdentity.lineNumber,
     status |-> status]

StrEntry(s) == [kind |-> "str", value |-> s]

\* TimeBlockManager.getTaskIdentifier: taskIdentity.identifier (undefined, here
\* Null, on a string)
getTaskIdentifier(task) == IF task.kind = "obj" THEN task.identifier ELSE Null

\* TaskDragManager.getTaskIdentifier: the string itself, else task.id || task.text || ''
DragTaskIdentifier(task) == IF task.kind = "str" THEN task.value ELSE EmptyStr

\* "placeholder-" and "Task with ID: "
PlaceholderPrefix == <<112, 108, 97, 99, 101, 104, 111, 108, 100, 101, 114, 45>>
TaskWithIdPrefix == <<84, 97, 115, 107, 32, 119, 105, 116, 104, 32, 73, 68, 58, 32>>

\* `${id}` of a template literal
StrOrNull(s) == IF s = Null THEN <<110, 117, 108, 108>> ELSE s

\* the placeholder task of a reference that resolves neither way; rnd stands for
\* `${Date.now()}-${Math.random()...}`
PlaceholderTask(ref, rnd) ==
    [kind |-> "obj",
     identifier |-> IF Truthy(ref.id) THEN ref.id ELSE PlaceholderPrefix \o rnd,
     originalContent |-> Unchecked \o <<32>>
                           \o (IF Truthy(ref.text) THEN ref.text
                               ELSE TaskWithIdPrefix \o StrOrNull(ref.id)),
     metadata |-> [originalDate |-> Null,
                   timeEstimate |-> Estimate(0, 0, 0),
                   dueDate |-> Null,
                   completed |-> FALSE],
     filePath |-> EmptyStr,
     lineNumber |-> 0,
     status |-> NOT_FOUND]

ResolveByText(tm, ref, rnd, found) ==
    IF found # 0 THEN ObjEntry(tm.taskCache[found].val, FOUND_BY_CONTENT)
    ELSE PlaceholderTask(ref, rnd)

\* TaskManager.findTasksByContent, which loadTimeBlocks calls and no source file
\* defines: the fuzzy lookup of findTaskByContent, as the index of
\* matchingTasks[0] (0 for an empty list)
findTasksByContent(tm, taskText) == findTaskByContent(tm, taskText)

\* a resolution that tries the text before the id
ResolveReferenceTextFirst(tm, ref, rnd) ==
    IF Truthy(ref.text) /\ findTasksByContent(tm, ref.text) # 0
    THEN ObjEntry(tm.taskCache[findTasksByContent(tm, ref.text)].val, FOUND_BY_CONTENT)
    ELSE IF Truthy(ref.id) /\ MapHas(tm.taskCache, ref.id)
    THEN ObjEntry(MapGet(tm.taskCache, ref.id), NORMAL)
    ELSE PlaceholderTask(ref, rnd)

\* the resolution of one persisted reference {id, text}
ResolveReference(tm, ref, rnd) ==
    IF Truthy(ref.id) /\ MapHas(tm.taskCache, ref.id)
    THEN ObjEntry(MapGet(tm.taskCache, ref.id), NORMAL)
    ELSE ResolveByText(tm, ref, rnd,
                       IF Truthy(ref.text) THEN findTasksByContent(tm, ref.text) ELSE 0)

\* the random suffix of the placeholder made for reference j of block b
PlaceholderSuffix(rnd, b, j) == ToDecimal(rnd) \o <<45>> \o ToDecimal(b) \o <<45>> \o ToDecimal(j)

ProcessedTasks(tm, tasks, rnd, b) ==
    [j \in 1..Len(tasks) |-> ResolveReference(tm, tasks[j], PlaceholderSuffix(rnd, b, j))]

\* loadTimeBlocks on the content read from currentDayFile
RECURSIVE LoadBlocks(_, _, _, _, _)
LoadNext(next, tm, data, b, rnd) ==
    IF Len(next) >= 0 THEN LoadBlocks(next, tm, data, b + 1, rnd) ELSE next

\* this.timeBlocks.set(blockId, { ...block, tasks: processedTasks })
LoadBlock(blocks, tm, blockId, block, rnd, b) ==
    MapSet(blocks, blockId, [block EXCEPT !.tasks = ProcessedTasks(tm, block.tasks, rnd, b)])

LoadBlocks(blocks, tm, data, b, rnd) ==
    IF b > Len(data) THEN blocks
    ELSE LoadNext(LoadBlock(blocks, tm, data[b].key, data[b].val, rnd, b), tm, data, b, rnd)

loadTimeBlocks(blocks, tm, content, rnd) ==
    IF content.section.present /\ content.section.valid
    THEN LoadBlocks(blocks, tm, content.section.data, 1, rnd)
    ELSE blocks

\* saveTimeBlocks_processTimeBlock throws on a string element
\* (taskIdentity.originalContent is undefined)
SaveThrows(blocks) ==
    \E i \in 1..Len(blocks) : \E j \in 1..Len(blocks[i].val.tasks) :
        blocks[i].val.tasks[j].kind = "str"

tasksWithInfo(tasks) ==
    [j \in 1..Len(tasks) |->
        [id |-> getTaskIdentifier(tasks[j]),
         text |-> Trim(StripCheckbox(tasks[j].originalContent))]]

timeBlocksData(blocks) ==
    [i \in 1..Len(blocks) |->
        [key |-> blocks[i].key,
         val |-> [blocks[i].val EXCEPT !.tasks = tasksWithInfo(blocks[i].val.tasks)]]]

\* a JSON string value used inside the replacement string of content.replace:
\* $$ becomes $, $' the (empty) text after the section; $& and $` paste text
\* with line breaks and quotes into the string, which is no longer valid JSON
RECURSIVE Corrupting(_)
Corrupting(s) ==
    IF Len(s) < 2 THEN FALSE
    ELSE IF s[1] # 36 THEN Corrupting(Tail(s))
    ELSE IF s[2] \in {38, 96} THEN TRUE
    ELSE IF s[2] \in {36, 39} THEN Corrupting(SubSeq(s, 3, Len(s)))
    ELSE Corrupting(Tail(s))

Expanded(s) == IF s = Null THEN Null ELSE ExpandReplacement(s, <<>>, <<>>, <<>>)

ExpandedTask(task) == [id |-> Expanded(task.id), text |-> Expanded(task.text)]

ExpandedBlock(block) ==
    [block EXCEPT !.id = Expanded(block.id),
                  !.title = Expanded(block.title),
                  !.tasks = [j \in 1..Len(block.tasks) |-> ExpandedTask(block.tasks[j])]]

ExpandedData(data) ==
    [i \in 1..Len(data) |->
        [key |-> Expanded(data[i].key), val |-> ExpandedBlock(data[i].val)]]

DataStrings(data) ==
    UNION {{data[i].key, data[i].val.id, data[i].val.title}
             \cup {data[i].val.tasks[j].id : j \in 1..Len(data[i].val.tasks)}
             \cup {data[i].val.tasks[j].text : j \in 1..Len(data[i].val.tasks)}
           : i \in 1..Len(data)}

\* content.replace(/```timeBlocks\n[\s\S]*?\n```/, '```timeBlocks\n' + json + '\n```')
ReplacedSection(data) ==
    [present |-> TRUE,
     valid |-> \A s \in DataStrings(data) : s = Null \/ ~ Corrupting(s),
     data |-> ExpandedData(data)]

\* content + '\n\n```timeBlocks\n' + json + '\n```'
AppendedSection(data) == [present |-> TRUE, valid |-> TRUE, data |-> data]

WriteSection(content, data) ==
    [content EXCEPT !.section = IF content.section.present THEN ReplacedSection(data)
                                ELSE AppendedSection(data)]

\* the document saveTimeBlocks writes (when it does not throw)
saveTimeBlocks(blocks, content) == WriteSection(content, timeBlocksData(blocks))

(***************************************************************************)
(* The world the handlers act on:                                          *)
(*   w = [vault, taskCache, lineTaskMap, fileCache, timeBlocks,            *)
(*        currentDayFile, modifiedFiles, refreshPending, burst, creation,  *)
(*        currentDate, mouseUpListeners]                                   *)
(***************************************************************************)
TM(w) == [taskCache |-> w.taskCache, lineTaskMap |-> w.lineTaskMap, fileCache |-> w.fileCache]

WithTM(w, tm) ==
    [w EXCEPT !.taskCache = tm.taskCache, !.lineTaskMap = tm.lineTaskMap,
              !.fileCache = tm.fileCache]

\* Set.prototype.add
SetAdd(seq, x) == IF \E i \in 1..Len(seq) : seq[i] = x THEN seq ELSE Append(seq, x)

\* TimelineView.onOpen, the vault 'modify' handler (every document is markdown)
OnModify(w, path) ==
    [w EXCEPT !.fileCache = FnDelete(w.fileCache, path),
              !.modifiedFiles = SetAdd(w.modifiedFiles, path),
              !.refreshPending = TRUE,
              !.burst = SetAdd(w.burst, path)]

\* vault.modify(file, newContent), with the notification it raises
VaultModify(w, path, newContent) ==
    OnModify([w EXCEPT !.vault = [p \in DOMAIN w.vault |->
                                      IF p = path THEN newContent ELSE w.vault[p]]], path)

ReplaceLine(content, hit, originalTask, newTask) ==
    IF hit = 0 THEN content
    ELSE [content EXCEPT !.lines = SeqSet(content.lines, hit,
                                          ReplaceFirst(content.lines[hit], originalTask, newTask))]

\* content.replace(originalTask, newTask): the first line holding originalTask
ReplaceInContent(content, originalTask, newTask) ==
    ReplaceLine(content,
                FirstIndex({i \in 1..Len(content.lines) :
                              Includes(content.lines[i], originalTask)}),
                originalTask, newTask)

\* TaskManager.updateTaskInFile
updateTaskInFile(w, originalTask, newTask, filePath) ==
    IF filePath \in DOMAIN w.vault
    THEN VaultModify(w, filePath, ReplaceInContent(w.vault[filePath], originalTask, newTask))
    ELSE w

\* vault.getMarkdownFiles(): the documents in a fixed order
DayPath == <<100>>
NotePath == <<110>>
NextDayPath == <<101>>
FileOrder == <<DayPath, NotePath, NextDayPath>>

MarkdownFiles(w) == SelectSeq(FileOrder, LAMBDA p : p \in DOMAIN w.vault)

\* TimeBlockManager.saveTimeBlocks(currentDayFile): the world afterwards and
\* whether the call threw
SaveTimeBlocks(w) ==
    IF w.currentDayFile = Null THEN [w |-> w, threw |-> FALSE]
    ELSE IF SaveThrows(w.timeBlocks) THEN [w |-> w, threw |-> TRUE]
    ELSE [w |-> VaultModify(w, w.currentDayFile,
                            saveTimeBlocks(w.timeBlocks, w.vault[w.currentDayFile])),
          threw |-> FALSE]

(***************************************************************************)
(* TaskDragManager                                                         *)
(***************************************************************************)
\* line.includes(`ID-EMOJI ${id}`) || getTaskIdentity(line).identifier === id
LineNamesTask(line, taskIdentifier) ==
    \/ Includes(line, EmojiId \o <<32>> \o taskIdentifier)
    \/ getTaskIdentity(line, EmptyStr, 0).identifier = taskIdentifier

\* lines.find(...) over the markdown files in order: [found, line, filePath]
RECURSIVE FindTaskLine(_, _, _)
FindInLines(w, files, taskIdentifier, lines, hit) ==
    IF hit # 0 THEN [found |-> TRUE, line |-> lines[hit], filePath |-> Head(files)]
    ELSE FindTaskLine(w, Tail(files), taskIdentifier)

FindInFile(w, files, taskIdentifier, lines) ==
    FindInLines(w, files, taskIdentifier, lines,
                FirstIndex({i \in 1..Len(lines) : LineNamesTask(lines[i], taskIdentifier)}))

FindTaskLine(w, files, taskIdentifier) ==
    IF files = <<>> THEN [found |-> FALSE, line |-> EmptyStr, filePath |-> EmptyStr]
    ELSE FindInFile(w, files, taskIdentifier, SplitLines(w.vault[Head(files)]))

\* taskCache.set(taskIdentifier, newIdentity) with newIdentity.filePath = file.path
CacheFoundLine(w, taskIdentifier, hit) ==
    IF hit.found
    THEN [w EXCEPT !.taskCache =
             MapSet(w.taskCache, taskIdentifier,
                    [getTaskIdentity(hit.line, EmptyStr, 0) EXCEPT !.filePath = hit.filePath])]
    ELSE w

\* TaskDragManager.renderTaskInBlock: its effect on the registry
renderTaskInBlock(w, taskIdentifier) ==
    IF MapHas(w.taskCache, taskIdentifier) THEN w
    ELSE CacheFoundLine(w, taskIdentifier, FindTaskLine(w, MarkdownFiles(w), taskIdentifier))

\* for (const task of timeBlock.tasks) await this.renderTaskInBlock(...)
RECURSIVE RenderTasks(_, _, _)
RenderNext(next, tasks, j) ==
    IF Len(next.taskCache) >= 0 THEN RenderTasks(next, tasks, j + 1) ELSE next

RenderTasks(w, tasks, j) ==
    IF j > Len(tasks) THEN w
    ELSE RenderNext(renderTaskInBlock(w, DragTaskIdentifier(tasks[j])), tasks, j)

\* block.tasks.filter(task => getTaskIdentifier(task) !== taskIdentifier), every block
RemoveFromBlocks(blocks, taskIdentifier) ==
    [i \in 1..Len(blocks) |->
        [blocks[i] EXCEPT !.val.tasks =
            SelectSeq(blocks[i].val.tasks,
                      LAMBDA task : DragTaskIdentifier(task) # taskIdentifier)]]

\* taskCache.set(newIdentity.identifier, newIdentity), newIdentity.filePath set
CacheNewIdentity(w, newIdentity, filePath) ==
    [w EXCEPT !.taskCache = MapSet(w.taskCache, newIdentity.identifier,
                                   [newIdentity EXCEPT !.filePath = filePath])]

EmbedId(w, current, taskContent) ==
    CacheNewIdentity(updateTaskInFile(w, current.originalContent, taskContent,
                                      current.filePath),
                     getTaskIdentity(taskContent, EmptyStr, 0), current.filePath)

\* handleTaskDrop, lines 14-30: embed an id in the task's line on first scheduling
EnsureTaskHasId(w, current) == EmbedId(w, current, addIdToTask(current.originalContent))

\* timeBlock.tasks.push(taskIdentifier), then the re-render of the block
PushAndRender(w, blocks, i, taskIdentifier) ==
    RenderTasks([w EXCEPT !.timeBlocks = SeqSet(blocks, i,
           [blocks[i] EXCEPT !.val.tasks = Append(blocks[i].val.tasks,
                                                  StrEntry(taskIdentifier))])],
                Append(blocks[i].val.tasks, StrEntry(taskIdentifier)), 1)

\* handleTaskDrop, lines 32-52
DropIntoBlock(w, taskIdentifier, i) ==
    IF \E j \in 1..Len(w.timeBlocks[i].val.tasks) :
          DragTaskIdentifier(w.timeBlocks[i].val.tasks[j]) = taskIdentifier
    THEN w
    ELSE PushAndRender(w, RemoveFromBlocks(w.timeBlocks, taskIdentifier), i, taskIdentifier)

\* handleTaskDrop, lines 32-74
DropAfterId(w, taskIdentifier, targetBlockId, isUnscheduled) ==
    IF Truthy(targetBlockId) /\ MapHas(w.timeBlocks, targetBlockId)
    THEN SaveTimeBlocks(DropIntoBlock(w, taskIdentifier, MapIndex(w.timeBlocks, targetBlockId)))
    ELSE IF isUnscheduled
    THEN SaveTimeBlocks([w EXCEPT !.timeBlocks = RemoveFromBlocks(w.timeBlocks, taskIdentifier)])
    ELSE IF Truthy(targetBlockId) THEN SaveTimeBlocks(w)
    ELSE [w |-> w, threw |-> FALSE]

DropKnown(w, current, taskIdentifier, targetBlockId, isUnscheduled) ==
    DropAfterId(IF Truthy(targetBlockId) /\ ~ Includes(current.originalContent, EmojiId)
                THEN EnsureTaskHasId(w, current)
                ELSE w,
                taskIdentifier, targetBlockId, isUnscheduled)

\* handleTaskDrop(taskIdentifier, targetElement, timeBlocks, targetBlockId, isUnscheduled);
\* targetBlockId = Null stands for undefined
handleTaskDropUnknown(w, taskIdentifier, targetBlockId, isUnscheduled) ==
    IF ~ MapHas(w.taskCache, taskIdentifier)
    THEN DropAfterId(w, taskIdentifier, targetBlockId, isUnscheduled)
    ELSE DropKnown(w, MapGet(w.taskCache, taskIdentifier), taskIdentifier, targetBlockId,
                   isUnscheduled)

handleTaskDrop(w, taskIdentifier, targetBlockId, isUnscheduled) ==
    IF ~ MapHas(w.taskCache, taskIdentifier) THEN [w |-> w, threw |-> FALSE]
    ELSE DropKnown(w, MapGet(w.taskCache, taskIdentifier), taskIdentifier, targetBlockId,
                   isUnscheduled)

(***************************************************************************)
(* TimelineView.refreshView                                                *)
(***************************************************************************)
\* clearCaches: taskCache and fileCache are cleared, lineTaskMap is not
clearCaches(w) == [w EXCEPT !.taskCache = <<>>, !.fileCache = <<>>]

\* the daily note of a date: file.basename === currentDate.format('YYYY-MM-DD')
DailyNote(date) == IF date = 0 THEN DayPath ELSE IF date = 1 THEN NextDayPath ELSE Null

\* loadScheduledTasks
loadScheduledTasks(w) ==
    [w EXCEPT !.currentDayFile = IF DailyNote(w.currentDate) \in DOMAIN w.vault
                                 THEN DailyNote(w.currentDate) ELSE Null]

\* what one processFile pass did: the file, the registry before the pass,
\* previousTasksInFile, the identifiers createTask returned, and the registry after
PassRecord(before, filePath, r) ==
    [file |-> filePath, before |-> before, previous |-> r.previous, matched |-> r.matched,
     after |-> r.tm.taskCache]

\* for (const file of files) await processFile(file, today)
RECURSIVE ProcessFiles(_, _, _)
ProcessFilesNext(w, files, passes, r) ==
    IF Len(r.tm.taskCache) >= 0
    THEN ProcessFiles(WithTM(w, r.tm), Tail(files), Append(passes, PassRecord(w.taskCache, Head(files), r)))
    ELSE [w |-> w, passes |-> passes]

ProcessFiles(w, files, passes) ==
    IF files = <<>> THEN [w |-> w, passes |-> passes]
    ELSE ProcessFilesNext(w, files, passes,
                          processFile(TM(w), Head(files), w.vault[Head(files)]))

ClearModified(r) == [w |-> [r.w EXCEPT !.modifiedFiles = <<>>], passes |-> r.passes]

\* loadTasks: every file when the registry is empty, else the modified files
FilesToProcess(w) ==
    IF Len(w.taskCache) = 0 THEN MarkdownFiles(w)
    ELSE SelectSeq(w.modifiedFiles, LAMBDA p : p \in DOMAIN w.vault)

loadTasks(w) ==
    IF Len(w.taskCache) = 0 THEN ProcessFiles(w, FilesToProcess(w), <<>>)
    ELSE ClearModified(ProcessFiles(w, FilesToProcess(w), <<>>))

LoadStore(w, rnd) ==
    [w EXCEPT !.timeBlocks = loadTimeBlocks(w.timeBlocks, TM(w), w.vault[w.currentDayFile], rnd)]

\* createTimeSlots: document.addEventListener('mouseup', ...), never removed
createTimeSlots(w) == [w EXCEPT !.mouseUpListeners = w.mouseUpListeners + 1]

RefreshAfterTasks(r, rnd) ==
    IF r.w.currentDayFile = Null THEN [w |-> createTimeSlots(r.w), passes |-> r.passes]
    ELSE [w |-> LoadStore(createTimeSlots(r.w), rnd), passes |-> r.passes]

\* refreshView: loadScheduledTasks and loadTasks, then loadTimeBlocks
refreshView(w, rnd) == RefreshAfterTasks(loadTasks(loadScheduledTasks(w)), rnd)

\* TimelineView.createNewTimeBlock with the title the prompt returned; now is Date.now()
BlockIdPrefix == <<98, 108, 111, 99, 107, 45>>

NewTimeBlock(id, title, startTime, endTime) ==
    [id |-> id, title |-> title,
     startTime |-> Min2(startTime, endTime),
     endTime |-> Max2(startTime, endTime) + 15,
     tasks |-> <<>>]

AddBlock(w, timeBlock) ==
    SaveTimeBlocks([w EXCEPT !.timeBlocks = MapSet(w.timeBlocks, timeBlock.id, timeBlock)])

createNewTimeBlockAnyDay(w, startTime, endTime, title, now) ==
    IF ~ Truthy(title) THEN [w |-> w, threw |-> FALSE]
    ELSE AddBlock(w, NewTimeBlock(BlockIdPrefix \o ToDecimal(now), title, startTime, endTime))

createNewTimeBlock(w, startTime, endTime, title, now) ==
    IF w.currentDayFile = Null \/ ~ Truthy(title) THEN [w |-> w, threw |-> FALSE]
    ELSE AddBlock(w, NewTimeBlock(BlockIdPrefix \o ToDecimal(now), title, startTime, endTime))

(***************************************************************************)
(* TaskManager.setupCheckboxListeners                                      *)
(***************************************************************************)
\* /^-\s*\[/ : the index after the match, 0 when the pattern does not match
AfterOpenBracket(line) ==
    IF Len(line) >= 1 /\ line[1] = 45 /\ SkipSpaces(line, 2) <= Len(line)
       /\ line[SkipSpaces(line, 2)] = 91
    THEN SkipSpaces(line, 2) + 1
    ELSE 0

\* /^-\s*\[\s*\]/ and /^-\s*\[x\]/ : the index after the match, 0 for no match
CloseAfterSpaces(line, j) == IF j <= Len(line) /\ line[j] = 93 THEN j + 1 ELSE 0

UncheckedFrom(line, i) == IF i = 0 THEN 0 ELSE CloseAfterSpaces(line, SkipSpaces(line, i))

MatchUncheckedPrefix(line) == UncheckedFrom(line, AfterOpenBracket(line))

CheckedFrom(line, i) ==
    IF i # 0 /\ i + 1 <= Len(line) /\ line[i] = 120 /\ line[i + 1] = 93 THEN i + 2 ELSE 0

MatchCheckedPrefix(line) == CheckedFrom(line, AfterOpenBracket(line))

\* moment().format('YYYY-MM-DD')
Today == <<50, 48, 50, 54, 45, 48, 49, 45, 48, 49>>

CutDate(s, i, d) == SubSeq(s, 1, i - 1) \o SubSeq(s, d + 10, Len(s))

CutDoneDateAt(s, i) ==
    IF i = 0 THEN s ELSE CutDate(s, i, SkipSpaces(s, i + Len(EmojiDone)))

\* .replace(/DONE-EMOJI\s*\d{4}-\d{2}-\d{2}/, '')
RemoveDoneDate(s) ==
    CutDoneDateAt(s, FirstIndex({i \in 1..Len(s) :
                                   /\ OccursAt(s, i, EmojiDone)
                                   /\ DateAt(s, SkipSpaces(s, i + Len(EmojiDone)))}))

\* line.replace(prefix pattern, box): k is the index after the matched prefix
ReplacePrefix(line, k, box) == IF k = 0 THEN line ELSE box \o SubSeq(line, k, Len(line))

\* the new line the checkbox click handler writes
ToggledLine(originalLine) ==
    IF Includes(originalLine, Checked)
    THEN Trim(RemoveDoneDate(ReplacePrefix(originalLine, MatchCheckedPrefix(originalLine),
                                           Unchecked)))
    ELSE ReplacePrefix(originalLine, MatchUncheckedPrefix(originalLine), Checked)
            \o (IF Includes(originalLine, EmojiDone) THEN <<>>
                ELSE <<32>> \o EmojiDone \o <<32>> \o Today)

ToggleLine(w, taskIdentity, content, n) ==
    IF /\ n >= 1 /\ n <= Len(content.lines)
       /\ Truthy(content.lines[n])
       /\ Includes(content.lines[n], taskIdentity.originalContent)
    THEN VaultModify(w, taskIdentity.filePath,
                     [content EXCEPT !.lines = SeqSet(content.lines, n, ToggledLine(content.lines[n]))])
    ELSE w

\* the click handler of the checkbox of the element made for taskIdentity
checkboxClick(w, taskIdentity) ==
    IF taskIdentity.filePath \in DOMAIN w.vault
    THEN ToggleLine(w, taskIdentity, w.vault[taskIdentity.filePath], taskIdentity.lineNumber)
    ELSE w

(***************************************************************************)
(* The state machine                                                       *)
(***************************************************************************)
VARIABLES
    vault,           \* path -> document content
    taskCache,       \* TaskManager.taskCache
    lineTaskMap,     \* TaskManager.lineTaskMap
    fileCache,       \* TaskManager.fileCache
    timeBlocks,      \* TimeBlockManager.timeBlocks
    currentDayFile,  \* TimelineView.currentDayFile
    currentDate,     \* TimelineView.currentDate, in days from today
    mouseUpListeners, \* how many mouseup listeners createTimeSlots has added to the document
    modifiedFiles,   \* TimelineView.modifiedFiles
    refreshPending,  \* the debounce timer of debouncedRefresh is armed
    opened,          \* onOpen has run
    now,             \* Date.now()
    budget,          \* how many user operations are still explored
    last,            \* the operation that produced the state
    passes,          \* the processFile passes of the last refreshView
    hourHeight,      \* TimelineView.hourHeight, in hundredths of a pixel
    closures,        \* the listeners of the rendered block elements
    burst,           \* the files notified since the debounce timer was armed
    creation         \* TimelineView.isCreatingTimeBlock and timeBlockStart

vars == <<vault, taskCache, lineTaskMap, fileCache, timeBlocks, currentDayFile, currentDate, mouseUpListeners,
          modifiedFiles, refreshPending, opened, now, budget, last, passes,
          hourHeight, closures, burst, creation>>

gestureVars == <<hourHeight, closures>>

\* null for a time: timeBlockStart = null, no cell under the pointer
NoCell == 0 - 1

\* no block is being created: isCreatingTimeBlock = false, timeBlockStart = null
Idle == [isCreatingTimeBlock |-> FALSE, timeBlockStart |-> NoCell]

World ==
    [vault |-> vault, taskCache |-> taskCache, lineTaskMap |-> lineTaskMap,
     fileCache |-> fileCache, timeBlocks |-> timeBlocks, currentDayFile |-> currentDayFile,
     modifiedFiles |-> modifiedFiles, refreshPending |-> refreshPending,
     burst |-> burst, creation |-> creation, currentDate |-> currentDate,
     mouseUpListeners |-> mouseUpListeners]

SetWorld(w) ==
    /\ vault' = w.vault
    /\ taskCache' = w.taskCache
    /\ lineTaskMap' = w.lineTaskMap
    /\ fileCache' = w.fileCache
    /\ timeBlocks' = w.timeBlocks
    /\ currentDayFile' = w.currentDayFile
    /\ currentDate' = w.currentDate
    /\ mouseUpListeners' = w.mouseUpListeners
    /\ modifiedFiles' = w.modifiedFiles
    /\ refreshPending' = w.refreshPending
    /\ burst' = w.burst
    /\ creation' = w.creation

\* TimelineView: hourHeight, minHourHeight, maxHourHeight (hundredths of a pixel)
DefaultHourHeight == 80 * 100
minHourHeight == 40 * 100
maxHourHeight == 200 * 100

\* bounds of the exploration
MaxOps == 2
MaxLines == 2
RndChoices == 2

\* the lines and documents the exploration starts from
LineA == Unchecked \o <<32, 97, 97, 97, 97, 97>>
LineB == Unchecked \o <<32, 97, 97, 97, 97, 98>>
LineC == Unchecked \o <<32, 122, 122>>
LinePool == {LineA, LineB, LineC}

TextA == <<97, 97, 97, 97, 97>>
TextB == <<97, 97, 97, 97, 98>>
TextQ == <<113, 113>>
GoneId == <<103, 111, 110, 101>>
TitleT == <<84>>
TitleDollars == <<36, 36>>
TitlePool == {TitleT, TitleDollars}
Block0 == <<98, 48>>

RefA == [id |-> generateTaskIdentity(LineA, NotePath, 1).identifier, text |-> TextA]
RefFuzzy == [id |-> Null, text |-> TextB]
RefGone == [id |-> GoneId, text |-> TextQ]
RefStale == [id |-> GoneId, text |-> TextB]
RefPool == {<<>>, <<RefA>>, <<RefFuzzy, RefGone>>, <<RefStale, RefA>>}

SectionWith(refs) ==
    [present |-> TRUE, valid |-> TRUE,
     data |-> << [key |-> Block0,
                  val |-> [id |-> Block0, title |-> TitleT, startTime |-> 540,
                           endTime |-> 600, tasks |-> refs]] >>]

SectionPool == {NoSection} \cup {SectionWith(refs) : refs \in RefPool}
NotePool == {<<LineA>>, <<LineA, LineC>>}

Init ==
    /\ \E note \in NotePool, section \in SectionPool, hasDay \in BOOLEAN :
          vault = IF hasDay
                  THEN [p \in {DayPath, NotePath} |->
                          IF p = DayPath THEN [lines |-> <<>>, section |-> section]
                          ELSE [lines |-> note, section |-> NoSection]]
                  ELSE [p \in {NotePath} |-> [lines |-> note, section |-> NoSection]]
    /\ taskCache = <<>>
    /\ lineTaskMap = <<>>
    /\ fileCache = <<>>
    /\ timeBlocks = <<>>
    /\ currentDayFile = Null
    /\ currentDate = 0
    /\ mouseUpListeners = 0
    /\ modifiedFiles = <<>>
    /\ refreshPending = FALSE
    /\ opened = FALSE
    /\ now = 1
    /\ budget = MaxOps
    /\ last = [op |-> "init", id |-> Null, block |-> Null, threw |-> FALSE]
    /\ passes = <<>>
    /\ hourHeight = DefaultHourHeight
    /\ closures = <<>>
    /\ burst = <<>>
    /\ creation = Idle

Did(op, id, block, threw) == [op |-> op, id |-> id, block |-> block, threw |-> threw]

Spend == budget' = budget - 1

\* the identifiers task elements carry in data-task
DraggableIds == {taskCache[i].val.identifier : i \in 1..Len(taskCache)}

\* the debounce timer runs out: the coalesced calls are served by the one that follows
TimerFired(w) == [w EXCEPT !.refreshPending = FALSE, !.burst = <<>>]

\* onOpen: the initial refreshView
Open ==
    /\ ~ opened
    /\ \E rnd \in 1..RndChoices :
          LET r == refreshView(World, rnd)
          IN  /\ SetWorld(r.w)
              /\ passes' = r.passes
    /\ opened' = TRUE
    /\ last' = Did("open", Null, Null, FALSE)
    /\ UNCHANGED <<now, budget, hourHeight, closures>>

\* the debounce timer fires: refreshView
DebouncedRefresh ==
    /\ opened
    /\ refreshPending
    /\ \E rnd \in 1..RndChoices :
          LET r == refreshView(TimerFired(World), rnd)
          IN  /\ SetWorld(r.w)
              /\ passes' = r.passes
    /\ last' = Did("refresh", Null, Null, FALSE)
    /\ UNCHANGED <<opened, now, budget, hourHeight, closures>>

\* the refresh button: clearCaches, then refreshView
ManualRefresh ==
    /\ opened
    /\ budget > 0
    /\ \E rnd \in 1..RndChoices :
          LET r == refreshView(clearCaches(World), rnd)
          IN  /\ SetWorld(r.w)
              /\ passes' = r.passes
    /\ Spend
    /\ last' = Did("manual", Null, Null, FALSE)
    /\ UNCHANGED <<opened, now, hourHeight, closures>>

\* the user edits the note in the editor: a line is inserted at the top,
\* appended at the end, or deleted; the vault raises 'modify'
EditedNotes(lines) ==
    {<<l>> \o lines : l \in IF Len(lines) < MaxLines THEN LinePool ELSE {}}
    \cup {Append(lines, l) : l \in IF Len(lines) < MaxLines THEN LinePool ELSE {}}
    \cup {SubSeq(lines, 1, i - 1) \o SubSeq(lines, i + 1, Len(lines)) : i \in 1..Len(lines)}

UserEdit ==
    /\ opened
    /\ budget > 0
    /\ \E lines \in EditedNotes(vault[NotePath].lines) :
          SetWorld(VaultModify(World, NotePath, [vault[NotePath] EXCEPT !.lines = lines]))
    /\ Spend
    /\ last' = Did("edit", Null, Null, FALSE)
    /\ UNCHANGED <<opened, now, passes, hourHeight, closures>>

\* a click on the checkbox of a task element
CheckboxClick ==
    /\ opened
    /\ budget > 0
    /\ \E i \in 1..Len(taskCache) :
          /\ SetWorld(checkboxClick(World, taskCache[i].val))
          /\ last' = Did("toggle", taskCache[i].val.identifier, Null, FALSE)
    /\ Spend
    /\ UNCHANGED <<opened, now, passes, hourHeight, closures>>

\* a task element is dropped on the drop zone of a rendered block
DropOnBlock ==
    /\ opened
    /\ budget > 0
    /\ \E id \in DraggableIds, b \in 1..Len(timeBlocks) :
          /\ Truthy(id)
          /\ LET r == handleTaskDrop(World, id, timeBlocks[b].key, FALSE)
             IN  /\ SetWorld(r.w)
                 /\ last' = Did("dropBlock", id, timeBlocks[b].key, r.threw)
    /\ Spend
    /\ UNCHANGED <<opened, now, passes, hourHeight, closures>>

\* a task element is dropped on the unscheduled drop zone
DropUnscheduled ==
    /\ opened
    /\ budget > 0
    /\ \E id \in DraggableIds :
          /\ Truthy(id)
          /\ LET r == handleTaskDrop(World, id, Null, TRUE)
             IN  /\ SetWorld(r.w)
                 /\ last' = Did("dropUnscheduled", id, Null, r.threw)
    /\ Spend
    /\ UNCHANGED <<opened, now, passes, hourHeight, closures>>

\* the creation gesture ends and the title prompt returns a title
CreateBlock ==
    /\ opened
    /\ budget > 0
    /\ \E title \in TitlePool, startTime \in {0, 1425}, endTime \in {0, 1425} :
          LET r == createNewTimeBlock(World, startTime, endTime, title, now)
          IN  /\ SetWorld(r.w)
              /\ last' = Did("create", Null, BlockIdPrefix \o ToDecimal(now), r.threw)
    /\ now' = now + 1
    /\ Spend
    /\ UNCHANGED <<opened, passes, hourHeight, closures>>

Next ==
    \/ Open
    \/ DebouncedRefresh
    \/ ManualRefresh
    \/ UserEdit
    \/ CheckboxClick
    \/ DropOnBlock
    \/ DropUnscheduled
    \/ CreateBlock

Spec == Init /\ [][Next]_vars

(***************************************************************************)
(* Moving and resizing a block with the pointer.  Times are minutes,       *)
(* hourHeight is in hundredths of a pixel, and the style lengths of a      *)
(* block element are kept exactly, in units of 1/6000 pixel                *)
(* (top = startTime * hourHeight).                                         *)
(***************************************************************************)
StyleUnit == 60 * 100

\* Math.round(n / d) for d > 0
RoundHalfUp(n, d) == (2 * n + d) \div (2 * d)

\* Math.round((px / hourHeight) * 4) / 4, as minutes
QuarterTime(px, hh) == 15 * RoundHalfUp(400 * px, hh)

\* blockEl.offsetTop, blockEl.offsetHeight
OffsetPixels(len) == RoundHalfUp(len, StyleUnit)

\* zoom(): the new hour height
zoom(hh, factor) == Min2(Max2((hh * factor) \div 10, minHourHeight), maxHourHeight)

\* renderTimeBlock: a new element with its drag and resize listeners
RenderedClosure(block, hh) ==
    [blockId |-> block.id, attached |-> TRUE,
     top |-> block.startTime * hh, height |-> (block.endTime - block.startTime) * hh,
     isDragging |-> FALSE, dragStartY |-> 0, dragStartTop |-> 0,
     originalStart |-> 0, originalEnd |-> 0,
     isResizing |-> FALSE, resizeType |-> "top", resizeStartY |-> 0,
     resizeStartTop |-> 0, resizeStartHeight |-> 0]

RenderedClosures(blocks, hh) ==
    [b \in 1..Len(blocks) |-> RenderedClosure(blocks[b].val, hh)]

IsActive(c) == c.isDragging \/ c.isResizing

\* listeners of replaced elements stay on the document; only those in the
\* middle of a gesture can still act
Detached(cs) ==
    [i \in 1..Len(SelectSeq(cs, IsActive)) |->
        [SelectSeq(cs, IsActive)[i] EXCEPT !.attached = FALSE]]

\* mousedown on the body of the block element
DragStart(c, block, clientY) ==
    [c EXCEPT !.isDragging = TRUE, !.dragStartY = clientY,
              !.dragStartTop = OffsetPixels(c.top),
              !.originalStart = block.startTime, !.originalEnd = block.endTime]

\* startResize
startResize(c, clientY, type) ==
    [c EXCEPT !.isResizing = TRUE, !.resizeType = type, !.resizeStartY = clientY,
              !.resizeStartTop = OffsetPixels(c.top),
              !.resizeStartHeight = OffsetPixels(c.height)]

\* a move that does not check the bounds of the timeline
DragToUnchecked(g, c, block, newStartTime, duration, hh) ==
    [c |-> [c EXCEPT !.top = newStartTime * hh],
     block |-> [block EXCEPT !.startTime = newStartTime,
                             !.endTime = newStartTime + duration]]

\* the mousemove listener of setupBlockDragHandlers
DragTo(g, c, block, newStartTime, duration, hh) ==
    IF newStartTime >= 0 /\ newStartTime + duration <= 1440
    THEN [c |-> [c EXCEPT !.top = newStartTime * hh],
          block |-> [block EXCEPT !.startTime = newStartTime,
                                  !.endTime = newStartTime + duration]]
    ELSE g

DragMove(g, clientY, hh) ==
    IF ~ g.c.isDragging THEN g
    ELSE DragTo(g, g.c, g.block,
                QuarterTime(g.c.dragStartTop + (clientY - g.c.dragStartY), hh),
                g.c.originalEnd - g.c.originalStart, hh)

\* the mousemove listener of setupBlockResizeHandlers
ResizeTopTo(g, c, block, newStartTime, hh) ==
    IF newStartTime >= 0 /\ newStartTime < block.endTime
    THEN [c |-> [c EXCEPT !.top = newStartTime * hh,
                          !.height = (block.endTime - newStartTime) * hh],
          block |-> [block EXCEPT !.startTime = newStartTime]]
    ELSE g

ResizeBottomTo(g, c, block, newEndTime, hh) ==
    IF newEndTime <= 1440 /\ newEndTime > block.startTime
    THEN [c |-> [c EXCEPT !.height = (newEndTime - block.startTime) * hh],
          block |-> [block EXCEPT !.endTime = newEndTime]]
    ELSE g

ResizeMove(g, clientY, hh) ==
    IF ~ g.c.isResizing THEN g
    ELSE IF g.c.resizeType = "top"
    THEN ResizeTopTo(g, g.c, g.block,
                     QuarterTime(g.c.resizeStartTop + (clientY - g.c.resizeStartY), hh), hh)
    ELSE ResizeBottomTo(g, g.c, g.block,
                        QuarterTime(g.c.resizeStartTop + g.c.resizeStartHeight
                                    + (clientY - g.c.resizeStartY), hh), hh)

\* both mousemove listeners of one element, in the order they were added
ClosureMove(c, block, clientY, hh) ==
    ResizeMove(DragMove([c |-> c, block |-> block], clientY, hh), clientY, hh)

RECURSIVE MoveFrom(_, _, _, _)
MoveStep(s, g, i, clientY, hh) ==
    MoveFrom([cs |-> SeqSet(s.cs, i, g.c),
              blocks |-> MapSet(s.blocks, g.c.blockId, g.block)], i + 1, clientY, hh)

\* a mousemove on the document reaches every listener
MoveFrom(s, i, clientY, hh) ==
    IF i > Len(s.cs) THEN s
    ELSE MoveStep(s, ClosureMove(s.cs[i], MapGet(s.blocks, s.cs[i].blockId), clientY, hh),
                  i, clientY, hh)

mousemove(cs, blocks, clientY, hh) ==
    MoveFrom([cs |-> cs, blocks |-> blocks], 1, clientY, hh)

\* the mouseup listeners: each active gesture ends and saves the schedule
ActiveGestures(c) == (IF c.isDragging THEN 1 ELSE 0) + (IF c.isResizing THEN 1 ELSE 0)

RECURSIVE SavesPending(_, _)
SavesPending(cs, i) ==
    IF i > Len(cs) THEN 0 ELSE ActiveGestures(cs[i]) + SavesPending(cs, i + 1)

RECURSIVE SaveTimes(_, _)
SaveTimes(w, n) == IF n = 0 THEN w ELSE SaveTimes(SaveTimeBlocks(w).w, n - 1)

Released(cs) ==
    [i \in 1..Len(cs) |-> [cs[i] EXCEPT !.isDragging = FALSE, !.isResizing = FALSE]]

\* the blocks the gestures start from
GestureBlock(id, startTime, endTime) ==
    [key |-> id, val |-> [id |-> id, title |-> TitleT, startTime |-> startTime,
                          endTime |-> endTime, tasks |-> <<>>]]

Block1 == <<98, 49>>

GestureSections ==
    {[present |-> TRUE, valid |-> TRUE, data |-> data] :
        data \in {<< GestureBlock(Block0, 0, 15) >>,
                  << GestureBlock(Block0, 1380, 1440) >>,
                  << GestureBlock(Block0, 540, 600), GestureBlock(Block1, 600, 645) >>}}

\* how many mousedown and wheel events are explored
MaxGestures == 2
PointerStart == 100
PointerPool == {PointerStart + d : d \in {0 - 3000, 0 - 47, 11, 3000}}

GestureInit ==
    /\ \E section \in GestureSections :
          vault = [p \in {DayPath, NotePath} |->
                      IF p = DayPath THEN [lines |-> <<>>, section |-> section]
                      ELSE [lines |-> <<LineA>>, section |-> NoSection]]
    /\ taskCache = <<>>
    /\ lineTaskMap = <<>>
    /\ fileCache = <<>>
    /\ timeBlocks = <<>>
    /\ currentDayFile = Null
    /\ currentDate = 0
    /\ mouseUpListeners = 0
    /\ modifiedFiles = <<>>
    /\ refreshPending = FALSE
    /\ opened = FALSE
    /\ now = 1
    /\ budget = MaxGestures
    /\ last = [op |-> "init", id |-> Null, block |-> Null, threw |-> FALSE]
    /\ passes = <<>>
    /\ hourHeight = DefaultHourHeight
    /\ closures = <<>>
    /\ burst = <<>>
    /\ creation = Idle

Rendered(w, detached) ==
    /\ SetWorld(w)
    /\ closures' = detached \o RenderedClosures(w.timeBlocks, hourHeight')

\* onOpen: refreshView renders the blocks of the day
OpenTimeline ==
    /\ ~ opened
    /\ hourHeight' = hourHeight
    /\ Rendered(refreshView(World, 1).w, <<>>)
    /\ opened' = TRUE
    /\ last' = Did("open", Null, Null, FALSE)
    /\ UNCHANGED <<now, budget, passes>>

\* the debounce timer fires: refreshView renders the blocks again
RefreshTimeline ==
    /\ opened
    /\ refreshPending
    /\ hourHeight' = hourHeight
    /\ Rendered(refreshView(TimerFired(World), 1).w,
                Detached(closures))
    /\ last' = Did("refresh", Null, Null, FALSE)
    /\ UNCHANGED <<opened, now, budget, passes>>

\* mousedown on the body of a block element
BlockMouseDown ==
    /\ opened
    /\ budget > 0
    /\ \E i \in 1..Len(closures) :
          /\ closures[i].attached
          /\ closures' = SeqSet(closures, i,
                              DragStart(closures[i],
                                        MapGet(timeBlocks, closures[i].blockId),
                                        PointerStart))
          /\ last' = Did("dragStart", Null, closures[i].blockId, FALSE)
    /\ Spend
    /\ UNCHANGED <<burst, creation, vault, taskCache, lineTaskMap, fileCache, timeBlocks, currentDayFile, currentDate, mouseUpListeners,
                   modifiedFiles, refreshPending, opened, now, passes, hourHeight>>

\* mousedown on the top or bottom handle of a block element
HandleMouseDown ==
    /\ opened
    /\ budget > 0
    /\ \E i \in 1..Len(closures), type \in {"top", "bottom"} :
          /\ closures[i].attached
          /\ closures' = SeqSet(closures, i, startResize(closures[i], PointerStart, type))
          /\ last' = Did("resizeStart", Null, closures[i].blockId, FALSE)
    /\ Spend
    /\ UNCHANGED <<burst, creation, vault, taskCache, lineTaskMap, fileCache, timeBlocks, currentDayFile, currentDate, mouseUpListeners,
                   modifiedFiles, refreshPending, opened, now, passes, hourHeight>>

\* mousemove on the document
MouseMove ==
    /\ opened
    /\ \E i \in 1..Len(closures) : IsActive(closures[i])
    /\ \E clientY \in PointerPool :
          LET s == mousemove(closures, timeBlocks, clientY, hourHeight)
          IN  /\ closures' = s.cs
              /\ timeBlocks' = s.blocks
    /\ last' = Did("move", Null, Null, FALSE)
    /\ UNCHANGED <<burst, creation, vault, taskCache, lineTaskMap, fileCache, currentDayFile, currentDate, mouseUpListeners,
                   modifiedFiles, refreshPending, opened, now, budget, passes, hourHeight>>

\* mouseup on the document
MouseUp ==
    /\ opened
    /\ \E i \in 1..Len(closures) : IsActive(closures[i])
    /\ SetWorld(SaveTimes(World, SavesPending(closures, 1)))
    /\ closures' = Released(closures)
    /\ last' = Did("release", Null, Null, FALSE)
    /\ UNCHANGED <<opened, now, budget, passes, hourHeight>>

\* ctrl + wheel on the timeline: zoom, then updateHourHeight renders again
WheelZoom ==
    /\ opened
    /\ budget > 0
    /\ \E factor \in {9, 11} : hourHeight' = zoom(hourHeight, factor)
    /\ closures' = Detached(closures) \o RenderedClosures(timeBlocks, hourHeight')
    /\ Spend
    /\ last' = Did("zoom", Null, Null, FALSE)
    /\ UNCHANGED <<burst, creation, vault, taskCache, lineTaskMap, fileCache, timeBlocks, currentDayFile, currentDate, mouseUpListeners,
                   modifiedFiles, refreshPending, opened, now, passes>>

GestureNext ==
    \/ OpenTimeline
    \/ RefreshTimeline
    \/ BlockMouseDown
    \/ HandleMouseDown
    \/ MouseMove
    \/ MouseUp
    \/ WheelZoom

GestureSpec == GestureInit /\ [][GestureNext]_vars


(***************************************************************************)
(* Properties of the schedule store                                        *)
(***************************************************************************)
\* the task an element of block.tasks stands for
EntryId(task) == IF task.kind = "str" THEN task.value ELSE task.identifier

EntryIds(tasks) == [j \in 1..Len(tasks) |-> EntryId(tasks[j])]

HeldBy(blocks, b) == {EntryId(blocks[b].val.tasks[j]) : j \in 1..Len(blocks[b].val.tasks)}

\* C1: in every reachable state each task identifier appears in the tasks list
\* of at most one time block
C1_AtMostOneBlock ==
    \A b1 \in 1..Len(timeBlocks), b2 \in 1..Len(timeBlocks) :
        b1 # b2 => HeldBy(timeBlocks, b1) \cap HeldBy(timeBlocks, b2) = {}

IsRefresh(op) == op \in {"open", "refresh", "manual"}

ResolvedInOrder(entry, ref, tm, found) ==
    IF MapHas(tm.taskCache, ref.id)
    THEN entry = ObjEntry(MapGet(tm.taskCache, ref.id), NORMAL)
    ELSE IF found # 0
    THEN entry = ObjEntry(tm.taskCache[found].val, FOUND_BY_CONTENT)
    ELSE /\ entry.status = NOT_FOUND
         /\ entry.filePath = EmptyStr
         /\ Includes(entry.originalContent, ref.text)

BlockResolved(tasks, refs, tm) ==
    /\ Len(tasks) = Len(refs)
    /\ \A j \in 1..Len(refs) :
          ResolvedInOrder(tasks[j], refs[j], tm,
                          IF Truthy(refs[j].text)
                          THEN findTasksByContent(tm, refs[j].text) ELSE 0)

SectionResolved(data, blocks, tm) ==
    \A b \in 1..Len(data) :
        /\ MapHas(blocks, data[b].key)
        /\ BlockResolved(MapGet(blocks, data[b].key).tasks, data[b].val.tasks, tm)

LoadedSection(section) == section.present /\ section.valid

StatusesOf(tasks) == {tasks[j].status : j \in 1..Len(tasks)}

SameBlock(stored, loaded) ==
    /\ loaded.id = stored.id
    /\ loaded.title = stored.title
    /\ loaded.startTime = stored.startTime
    /\ loaded.endTime = stored.endTime
    /\ EntryIds(loaded.tasks) = EntryIds(stored.tasks)

SameSchedule(stored, loaded) ==
    /\ MapKeys(loaded) = MapKeys(stored)
    /\ \A i \in 1..Len(stored) :
          /\ MapHas(loaded, stored[i].key)
          /\ SameBlock(stored[i].val, MapGet(loaded, stored[i].key))

\* C3: saving the store and loading the written document, with the registry
\* and the rest of the document unchanged, gives the same block ids, titles,
\* start and end times and the same sequences of task identifiers
C3_RoundTrip ==
    (currentDayFile # Null /\ ~ SaveThrows(timeBlocks))
    => SameSchedule(timeBlocks,
                    loadTimeBlocks(<<>>, TM(World),
                                   saveTimeBlocks(timeBlocks, vault[currentDayFile]), 1))

LastEntryIs(tasks, t) == Len(tasks) > 0 /\ EntryId(tasks[Len(tasks)]) = t

OnlyIn(blocks, i, t) == \A b \in 1..Len(blocks) : b # i => t \notin HeldBy(blocks, b)

\* C5: after a drop of a registered task t onto an existing block B that does
\* not hold t, t is the last element of B.tasks, no other block holds t, and
\* the schedule has been saved to the day document
C5_DropOntoBlock ==
    [][(/\ last'.op = "dropBlock"
        /\ MapHas(taskCache, last'.id)
        /\ MapHas(timeBlocks, last'.block)
        /\ last'.id \notin HeldBy(timeBlocks, MapIndex(timeBlocks, last'.block)))
       => /\ LastEntryIs(MapGet(timeBlocks', last'.block).tasks, last'.id)
          /\ OnlyIn(timeBlocks', MapIndex(timeBlocks', last'.block), last'.id)
          /\ ~ last'.threw
          /\ vault'[currentDayFile'] = saveTimeBlocks(timeBlocks', vault[currentDayFile'])]_vars

WithoutTask(block, t) ==
    [block EXCEPT !.tasks = SelectSeq(block.tasks, LAMBDA task : EntryId(task) # t)]

\* C6: after a drop of task t onto the unscheduled zone no block holds t, and
\* every block keeps its id, title, times and its other tasks in their order
C6_DropUnscheduledFrame ==
    [][last'.op = "dropUnscheduled"
       => /\ Len(timeBlocks') = Len(timeBlocks)
          /\ \A b \in 1..Len(timeBlocks) :
                /\ timeBlocks'[b].key = timeBlocks[b].key
                /\ timeBlocks'[b].val = WithoutTask(timeBlocks[b].val, last'.id)]_vars

(***************************************************************************)
(* Properties of the registry                                              *)
(***************************************************************************)
InSeq(seq, x) == \E i \in 1..Len(seq) : seq[i] = x

LineHasEntry(cache, f, m, line) ==
    \E j \in 1..Len(cache) :
        /\ cache[j].val.filePath = f
        /\ cache[j].val.lineNumber = m
        /\ cache[j].val.originalContent = line

\* every other checklist line of the file is registered as it stands
OtherLinesRegistered(cache, f, n, lines) ==
    \A m \in 1..Len(lines) :
        (m # n /\ IsChecklistLine(lines[m])) => LineHasEntry(cache, f, m, lines[m])

\* the line of entry i changed, but only in its checkbox or its metadata markers
MarkupChangedAt(cache, e, lines) ==
    /\ e.lineNumber \in 1..Len(lines)
    /\ IsChecklistLine(lines[e.lineNumber])
    /\ lines[e.lineNumber] # e.originalContent
    /\ areTasksSimilar(stripTaskMetadata(lines[e.lineNumber]),
                       stripTaskMetadata(e.originalContent))
    /\ OtherLinesRegistered(cache, e.filePath, e.lineNumber, lines)

MarkupChanged(cache, i, e) ==
    /\ cache[i].key = e.identifier
    /\ e.filePath \in DOMAIN vault
    /\ InSeq(modifiedFiles, e.filePath)
    /\ MarkupChangedAt(cache, e, SplitLines(vault[e.filePath]))

RefreshedFrom(r, e, line) ==
    /\ r.identifier = e.identifier
    /\ r.originalContent = line
    /\ r.metadata = parseTask(line)
    /\ r.filePath = e.filePath
    /\ r.lineNumber = e.lineNumber

UpdatedInPlace(after, e, line) ==
    /\ MapHas(after, e.identifier)
    /\ RefreshedFrom(MapGet(after, e.identifier), e, line)

\* C7: when one line of a file changed, and only in its checkbox or its
\* metadata markers, the next reconcile of the file keeps the identifier of
\* the line's entry and the number of registry entries, and refreshes
\* originalContent, metadata and location from the new line
C7_UpdateInPlace ==
    [][last'.op = "refresh"
       => \A i \in 1..Len(taskCache) :
             MarkupChanged(taskCache, i, taskCache[i].val)
             => /\ Len(taskCache') = Len(taskCache)
                /\ UpdatedInPlace(taskCache', taskCache[i].val,
                                  SplitLines(vault[taskCache[i].val.filePath])
                                      [taskCache[i].val.lineNumber])]_vars

\* C8: the registry maps each key to a record whose identifier is the key
C8_KeyIsIdentifier ==
    \A i \in 1..Len(taskCache) : taskCache[i].key = taskCache[i].val.identifier

RegisteredWith(cache, filePath) ==
    {cache[i].val.identifier :
        i \in {j \in 1..Len(cache) : cache[j].val.filePath = filePath}}

Holds(cache, id) ==
    \E i \in 1..Len(cache) : cache[i].key = id \/ cache[i].val.identifier = id

PassRemovesAndKeeps(pass) ==
    /\ \A id \in RegisteredWith(pass.before, pass.file) \ pass.matched :
          ~ Holds(pass.after, id)
    /\ \A id \in pass.matched : MapHas(pass.after, id)

\* C9: after a pass of processFile over f, no identifier that was registered
\* with f and was matched by no line is left in the registry, neither as a key
\* nor in a record, and every identifier a line matched is still a key of it
C9_ReconcileRemovesUnmatched ==
    \A p \in 1..Len(passes) : PassRemovesAndKeeps(passes[p])

\* /ID-EMOJI (task_[a-zA-Z0-9_]+)/ : the characters of an identifier
IsIdChar(c) ==
    \/ c \in 48..57
    \/ c \in 65..90
    \/ c \in 97..122
    \/ c = 95

RECURSIVE SkipIdChars(_, _)
SkipIdChars(s, i) ==
    IF i <= Len(s) /\ IsIdChar(s[i]) THEN SkipIdChars(s, i + 1) ELSE i

MarkerValueAt(line, i) ==
    IF i = 0 THEN Null
    ELSE SubSeq(line, i + Len(EmojiId) + 1, SkipIdChars(line, i + Len(EmojiId) + 1) - 1)

\* the value of the inline id marker of a line, Null without a marker
MarkerValue(line) ==
    MarkerValueAt(line, IndexOf(line, EmojiId \o <<32>>))

IdentifierIsMarker(line, filePath, n, marker) ==
    marker # Null
    => /\ generateTaskIdentity(line, filePath, n).identifier = marker
       /\ getTaskIdentity(line, filePath, n).identifier = marker

\* C10: the identity resolved for a checklist line that carries an id marker
\* has the marker's value as its identifier
C10_MarkerVerbatim ==
    \A f \in DOMAIN vault : \A n \in 1..Len(vault[f].lines) :
        IsChecklistLine(vault[f].lines[n])
        => IdentifierIsMarker(vault[f].lines[n], f, n, MarkerValue(vault[f].lines[n]))

(***************************************************************************)
(* Properties of the pointer gestures                                      *)
(***************************************************************************)
OnQuarterHours(block) ==
    /\ block.startTime % 15 = 0
    /\ block.endTime % 15 = 0

WithinDay(block) ==
    /\ 0 <= block.startTime
    /\ block.startTime < block.endTime
    /\ block.endTime <= 1440

\* C4: after any sequence of move and resize pointer events every block still
\* starts and ends on a quarter hour and satisfies 0 <= startTime < endTime <= 24h
C4_QuantizedWithinDay ==
    \A b \in 1..Len(timeBlocks) :
        OnQuarterHours(timeBlocks[b].val) /\ WithinDay(timeBlocks[b].val)

\* a block that was moved and is now resized at its bottom handle
C4_Witness ==
    /\ last.op = "move"
    /\ \E i \in 1..Len(closures) :
          /\ closures[i].blockId = Block0
          /\ closures[i].isResizing
          /\ closures[i].resizeType = "bottom"
          /\ MapGet(timeBlocks, Block0).startTime \notin {0, 540, 1380}
          /\ MapGet(timeBlocks, Block0).endTime - MapGet(timeBlocks, Block0).startTime
                \notin {15, 60}

(***************************************************************************)
(* Properties of the identity derivations                                  *)
(***************************************************************************)
ChecklistLines(f) ==
    {vault[f].lines[i] : i \in {j \in 1..Len(vault[f].lines) :
                                    IsChecklistLine(vault[f].lines[j])}}

\* registration and re-derivation give one identifier for the two lines
SameIdentifier(l1, n, l2, m, f) ==
    /\ generateTaskIdentity(l1, f, n).identifier = generateTaskIdentity(l2, f, m).identifier
    /\ getTaskIdentity(l1, f, n).identifier = getTaskIdentity(l2, f, m).identifier
    /\ getTaskIdentity(l1, f, n).identifier = generateTaskIdentity(l2, f, m).identifier

\* C11: every identity derivation (registration by generateTaskIdentity,
\* re-derivation by getTaskIdentity) returns the same identifier for lines of
\* one file with the same canonical content, whatever their line numbers
C11_IdentityStable ==
    \A f \in DOMAIN vault : \A l1, l2 \in ChecklistLines(f) :
        stripTaskMetadata(l1) = stripTaskMetadata(l2)
            => \A n, m \in 0..MaxLines : SameIdentifier(l1, n, l2, m, f)

(***************************************************************************)
(* TimeBlockManager.calculateBlockPercentage.  The quotient is kept exact, *)
(* as the fraction num/den in lowest terms; the block's duration is in     *)
(* minutes, (endTime - startTime) * 60 of the source's hours.              *)
(***************************************************************************)
RECURSIVE Gcd(_, _)
Gcd(a, b) == IF b = 0 THEN a ELSE Gcd(b, a % b)

Lowest(n, d, g) == IF g = 0 THEN [num |-> n, den |-> d] ELSE [num |-> n \div g, den |-> d \div g]

Ratio(n, d) == Lowest(n, d, Gcd(n, d))

\* the forEach over block.tasks: metadata.timeEstimate is truthy for every object
\* parseTask or the placeholder built with an estimate
RECURSIVE totalTaskMinutes(_, _)
totalTaskMinutes(tasks, i) ==
    IF i > Len(tasks) THEN 0
    ELSE (IF tasks[i].metadata.timeEstimate.present
          THEN tasks[i].metadata.timeEstimate.totalMinutes ELSE 0)
         + totalTaskMinutes(tasks, i + 1)

PercentageOf(total, blockDurationMinutes) ==
    [threw |-> FALSE, percentage |-> Ratio(100 * total, blockDurationMinutes),
     totalMinutes |-> total]

\* taskIdentity?.metadata.timeEstimate reads a property of undefined, and throws,
\* when the entry is a string
calculateBlockPercentage(block) ==
    IF \E i \in 1..Len(block.tasks) : block.tasks[i].kind = "str"
    THEN [threw |-> TRUE, percentage |-> Ratio(0, 1), totalMinutes |-> 0]
    ELSE PercentageOf(totalTaskMinutes(block.tasks, 1), block.endTime - block.startTime)

(***************************************************************************)
(* The lookups and computations of the engine, applied to bounded inputs:  *)
(* the registry is the one refreshView builds from a note, the texts and   *)
(* blocks are drawn from pools.                                            *)
(***************************************************************************)
Repeat(c, n) == [i \in 1..n |-> c]

\* the most characters changed or inserted in a compared text
MaxEdits == 10

TenA == Repeat(97, 10)
SevenAThreeB == Repeat(97, 7) \o Repeat(98, 3)
EightATwoB == Repeat(97, 8) \o Repeat(98, 2)
LineX == Unchecked \o <<32>> \o TenA
LineY == Unchecked \o <<32>> \o SevenAThreeB
LineDone == Checked \o <<32>> \o SevenAThreeB \o <<32>> \o EmojiDone \o <<32, 50, 48>>

FunctionNotes == {<<LineX>>, <<LineY>>, <<LineX, LineY>>, <<LineY, LineX>>, <<LineC, LineX>>}
QueryPool == {EightATwoB, TenA, TextQ, LineDone}

\* the contents compared: empty, 5, 20 and 40 characters
BasePool == {Repeat(97, n) : n \in {0, 5, 20, 40}}

\* base with its first k characters replaced by, or preceded by, k characters
\* it does not contain: k is the edit distance between the two
Substituted(base, k) == Repeat(98, k) \o SubSeq(base, k + 1, Len(base))
Inserted(base, k) == Repeat(98, k) \o base

Line30m == Unchecked \o <<32, 116, 32>> \o EmojiEstimate \o <<32, 51, 48, 109>>
Line1h20m == Unchecked \o <<32, 117, 32>> \o EmojiEstimate \o <<32, 49, 104, 32, 50, 48, 109>>
Task30m == ObjEntry(generateTaskIdentity(Line30m, NotePath, 1), NORMAL)
Task1h20m == ObjEntry(generateTaskIdentity(Line1h20m, NotePath, 2), NORMAL)
TaskPlain == ObjEntry(generateTaskIdentity(LineA, NotePath, 3), FOUND_BY_CONTENT)
TaskLists ==
    {<<>>, <<Task30m>>, <<Task30m, Task30m>>, <<Task30m, Task30m, Task30m>>,
     <<TaskPlain>>, <<TaskPlain, Task30m>>, <<Task1h20m>>, <<Task1h20m, Task30m, TaskPlain>>,
     <<PlaceholderTask(RefGone, <<49>>)>>}
BlockPool ==
    {[id |-> Block0, title |-> TitleT, startTime |-> s, endTime |-> s + d, tasks |-> ts] :
        s \in {540}, d \in {15, 60, 90}, ts \in TaskLists}

FunctionInit ==
    /\ \E note \in FunctionNotes :
          vault = [p \in {NotePath} |-> [lines |-> note, section |-> NoSection]]
    /\ taskCache = <<>>
    /\ lineTaskMap = <<>>
    /\ fileCache = <<>>
    /\ timeBlocks = <<>>
    /\ currentDayFile = Null
    /\ currentDate = 0
    /\ mouseUpListeners = 0
    /\ modifiedFiles = <<>>
    /\ refreshPending = FALSE
    /\ opened = FALSE
    /\ now = 1
    /\ budget = 0
    /\ last = [op |-> "init", id |-> Null, block |-> Null, threw |-> FALSE]
    /\ passes = <<>>
    /\ hourHeight = DefaultHourHeight
    /\ closures = <<>>
    /\ burst = <<>>
    /\ creation = Idle

Unchanged == UNCHANGED <<burst, creation, vault, taskCache, lineTaskMap, fileCache, timeBlocks, currentDayFile, currentDate, mouseUpListeners,
                         modifiedFiles, refreshPending, opened, now, budget, passes,
                         hourHeight, closures>>

\* Each lookup or computation is applied once, to the view as refreshView left
\* it: the functions are pure, so a second application repeats the first.

\* taskManager.findTaskByContent(text) on the registry of the opened view
FindByContent ==
    /\ last.op = "open"
    /\ \E text \in QueryPool :
          last' = [op |-> "find", text |-> text,
                   found |-> findTaskByContent(TM(World), text)]
    /\ Unchanged

\* areTasksSimilar on a content and an edited copy of it
Compared(text1, text2, k) ==
    [op |-> "similar", text1 |-> text1, text2 |-> text2, edits |-> k,
     similar |-> areTasksSimilar(text1, text2)]

AreTasksSimilar ==
    /\ last.op = "open"
    /\ \E base \in BasePool, k \in 0..MaxEdits, swap \in BOOLEAN :
          \E other \in {Inserted(base, k)}
                          \cup (IF k <= Len(base) THEN {Substituted(base, k)} ELSE {}) :
              last' = IF swap THEN Compared(other, base, k) ELSE Compared(base, other, k)
    /\ Unchanged

\* renderTimeBlock: calculateBlockPercentage(block)
CalculateBlockPercentage ==
    /\ last.op = "open"
    /\ \E block \in BlockPool :
          last' = [op |-> "percentage", block |-> block,
                   result |-> calculateBlockPercentage(block)]
    /\ Unchanged

FunctionNext ==
    \/ Open
    \/ FindByContent
    \/ AreTasksSimilar
    \/ CalculateBlockPercentage

FunctionSpec == FunctionInit /\ [][FunctionNext]_vars

(***************************************************************************)
(* Properties of the lookups and computations                              *)
(***************************************************************************)
\* the edit distance between the canonical forms of a text and of entry i
DistanceTo(text, i) ==
    levenshteinDistance(stripTaskMetadata(text),
                        stripTaskMetadata(taskCache[i].val.originalContent))

WithinThreshold(text, i) ==
    DistanceTo(text, i) <= MaxDistance(stripTaskMetadata(text),
                                       stripTaskMetadata(taskCache[i].val.originalContent))

NoneIffNoneWithin(text, found) ==
    (found = 0) <=> ~ \E i \in 1..Len(taskCache) : WithinThreshold(text, i)

ClosestWithin(text, found) ==
    /\ WithinThreshold(text, found)
    /\ \A i \in 1..Len(taskCache) :
          WithinThreshold(text, i) => DistanceTo(text, found) <= DistanceTo(text, i)

\* C12: findTaskByContent returns a registered entry at the minimum edit distance
\* among the entries within the similarity threshold, and none if and only if
\* no entry is within the threshold
C12_FindClosest ==
    last.op = "find" =>
        /\ NoneIffNoneWithin(last.text, last.found)
        /\ last.found # 0 => ClosestWithin(last.text, last.found)


HasEstimate(task) == task.kind = "obj" /\ task.metadata.timeEstimate.present

\* the sum of timeEstimate.totalMinutes over the entries that have an estimate
RECURSIVE EstimatedMinutes(_)
EstimatedMinutes(tasks) ==
    IF tasks = <<>> THEN 0
    ELSE (IF HasEstimate(Head(tasks)) THEN Head(tasks).metadata.timeEstimate.totalMinutes ELSE 0)
         + EstimatedMinutes(Tail(tasks))

Fills(block, result) ==
    /\ ~ result.threw
    /\ result.percentage.num * (block.endTime - block.startTime)
          = 100 * EstimatedMinutes(block.tasks) * result.percentage.den

HalfHourTasks(n) == [i \in 1..n |-> Task30m]

\* a 1-hour block with n tasks of 30 minutes reports 50 * n
FillExamples(block, result) ==
    \A n \in 0..3 :
        (block.endTime - block.startTime = 60 /\ block.tasks = HalfHourTasks(n))
            => result.percentage = [num |-> 50 * n, den |-> 1]

\* C13: calculateBlockPercentage(block) is 100 * (sum of the estimates of the
\* block's tasks, 0 for a task without one) / (the block's duration in minutes),
\* not clamped: 50, 100, 0 and 150 for a 1-hour block with one, two, no and three
\* 30-minute tasks; for the blocks of the store and for the blocks computed
C13_FillPercentage ==
    /\ \A b \in 1..Len(timeBlocks) :
          Fills(timeBlocks[b].val, calculateBlockPercentage(timeBlocks[b].val))
    /\ last.op = "percentage" =>
          Fills(last.block, last.result) /\ FillExamples(last.block, last.result)


\* min(floor(0.2 * max(|a|, |b|)), 7)
SimilarityThreshold(a, b) == Min2((2 * Max2(Len(a), Len(b))) \div 10, 7)

\* C14: two canonical contents are similar if and only if their edit distance is
\* at most min(floor(0.2 * max(|a|,|b|)), 7); two contents of 20 characters that
\* differ in 1 character are similar, two that differ in 10 are not
C14_SimilarityThreshold ==
    last.op = "similar" =>
        /\ last.similar <=> (last.edits <= SimilarityThreshold(last.text1, last.text2))
        /\ (Len(last.text1) = 20 /\ Len(last.text2) = 20 /\ last.edits = 1) => last.similar
        /\ (Len(last.text1) = 20 /\ Len(last.text2) = 20 /\ last.edits = 10) => ~ last.similar

\* two contents of 20 characters that differ in 10 were compared
C14_Witness ==
    /\ last.op = "similar"
    /\ Len(last.text1) = 20 /\ Len(last.text2) = 20
    /\ last.edits = 10
    /\ ~ last.similar

(***************************************************************************)
(* The creation of a time block with the pointer: mousedown on a quarter-  *)
(* hour cell, mouseup on the document (createTimeSlots), the title prompt  *)
(* and createNewTimeBlock.                                                 *)
(***************************************************************************)
\* the cells (data-time, in minutes) the pointer is pressed and released on
CellPool == {0, 540, 1425}

\* what the title prompt returns: null, an empty title or a title
PromptPool == {Null, EmptyStr} \cup TitlePool

\* dropZone mousedown
slotMouseDown(w, cell) ==
    [w EXCEPT !.creation = [isCreatingTimeBlock |-> TRUE, timeBlockStart |-> cell]]

\* the document mouseup listener while a block is being created: inModal says
\* that the target is inside a modal (the listener then returns at once), current
\* is the cell under the pointer (NoCell when there is none); createNewTimeBlock
\* resets the creation state before it opens the prompt
documentMouseUpAnywhere(w, inModal, current, title, time) ==
    createNewTimeBlock([w EXCEPT !.creation = Idle],
                       w.creation.timeBlockStart,
                       IF current = NoCell THEN w.creation.timeBlockStart ELSE current,
                       title, time)

documentMouseUp(w, inModal, current, title, time) ==
    IF inModal THEN [w |-> w, threw |-> FALSE]
    ELSE createNewTimeBlock([w EXCEPT !.creation = Idle],
                            w.creation.timeBlockStart,
                            IF current = NoCell THEN w.creation.timeBlockStart ELSE current,
                            title, time)

CreationInit ==
    /\ \E section \in {NoSection, SectionWith(<<>>), SectionWith(<<RefA>>)}, hasDay \in BOOLEAN :
          vault = IF hasDay
                  THEN [p \in {DayPath, NotePath} |->
                          IF p = DayPath THEN [lines |-> <<>>, section |-> section]
                          ELSE [lines |-> <<LineA>>, section |-> NoSection]]
                  ELSE [p \in {NotePath} |-> [lines |-> <<LineA>>, section |-> NoSection]]
    /\ taskCache = <<>>
    /\ lineTaskMap = <<>>
    /\ fileCache = <<>>
    /\ timeBlocks = <<>>
    /\ currentDayFile = Null
    /\ currentDate = 0
    /\ mouseUpListeners = 0
    /\ modifiedFiles = <<>>
    /\ refreshPending = FALSE
    /\ opened = FALSE
    /\ now = 1
    /\ budget = MaxOps
    /\ last = [op |-> "init", id |-> Null, block |-> Null, threw |-> FALSE]
    /\ passes = <<>>
    /\ hourHeight = DefaultHourHeight
    /\ closures = <<>>
    /\ burst = <<>>
    /\ creation = Idle

SlotMouseDown ==
    /\ opened
    /\ budget > 0
    /\ \E cell \in CellPool : SetWorld(slotMouseDown(World, cell))
    /\ last' = Did("mousedown", Null, Null, FALSE)
    /\ UNCHANGED <<opened, now, budget, passes, hourHeight, closures>>

DocumentMouseUp ==
    /\ opened
    /\ budget > 0
    /\ creation.isCreatingTimeBlock /\ creation.timeBlockStart # NoCell
    /\ \E inModal \in BOOLEAN, current \in CellPool \cup {NoCell}, title \in PromptPool :
          /\ inModal => current = NoCell
          /\ LET r == documentMouseUp(World, inModal, current, title, now)
             IN  /\ SetWorld(r.w)
                 /\ last' = [op |-> "mouseup", id |-> Null,
                             block |-> BlockIdPrefix \o ToDecimal(now), threw |-> r.threw,
                             current |-> current, title |-> title, modal |-> inModal]
    /\ now' = now + 1
    /\ Spend
    /\ UNCHANGED <<opened, passes, hourHeight, closures>>

CreationNext ==
    \/ Open
    \/ DebouncedRefresh
    \/ DropOnBlock
    \/ SlotMouseDown
    \/ DocumentMouseUp

CreationSpec == CreationInit /\ [][CreationNext]_vars


\* the block a gesture from cell start to cell current creates
ExpectedBlock(id, title, start, current) ==
    [id |-> id, title |-> title, startTime |-> Min2(start, current),
     endTime |-> Max2(start, current) + 15, tasks |-> <<>>]

\* the day document holds the block, with its times and tasks, in its timeBlocks section
PersistedIn(content, block) ==
    /\ content.section.present /\ content.section.valid
    /\ \E i \in 1..Len(content.section.data) :
          /\ content.section.data[i].key = block.id
          /\ content.section.data[i].val.startTime = block.startTime
          /\ content.section.data[i].val.endTime = block.endTime
          /\ content.section.data[i].val.tasks = block.tasks

OneBlockAdded(before, after, block) ==
    /\ Len(after) = Len(before) + 1
    /\ \A i \in 1..Len(before) : after[i] = before[i]
    /\ after[Len(after)] = [key |-> block.id, val |-> block]

\* C15: on pointer-up over a cell the creation gesture ends idle; when the prompt
\* returned a title, exactly one block spanning [min(start, current),
\* max(start, current) + a quarter hour] with no tasks was added to the store and
\* written to the day document; when it returned null or an empty title, the
\* store and the documents are unchanged
C15_CreationGesture ==
    [][(last'.op = "mouseup" /\ last'.current # NoCell /\ currentDayFile # Null) =>
          /\ creation' = Idle
          /\ IF Truthy(last'.title)
             THEN /\ OneBlockAdded(timeBlocks, timeBlocks',
                                   ExpectedBlock(last'.block, last'.title,
                                                 creation.timeBlockStart, last'.current))
                  /\ PersistedIn(vault'[currentDayFile],
                                 ExpectedBlock(last'.block, last'.title,
                                               creation.timeBlockStart, last'.current))
             ELSE timeBlocks' = timeBlocks /\ vault' = vault]_vars


(***************************************************************************)
(* Edits of the day document from outside the timeline, and the loads that *)
(* follow them                                                              *)
(***************************************************************************)
\* a timeBlocks fence whose body JSON.parse rejects
GarbledSection == [present |-> TRUE, valid |-> FALSE, data |-> <<>>]

\* the user rewrites the day document in the editor; the vault raises 'modify'
editSection(w, path, section) ==
    VaultModify(w, path, [w.vault[path] EXCEPT !.section = section])

EditSection ==
    /\ opened
    /\ budget > 0
    /\ DayPath \in DOMAIN vault
    /\ \E section \in {NoSection, GarbledSection} :
          /\ vault[DayPath].section # section
          /\ SetWorld(editSection(World, DayPath, section))
    /\ last' = Did("edit", Null, Null, FALSE)
    /\ Spend
    /\ UNCHANGED <<opened, now, passes, hourHeight, closures>>

Loadable(content) == content.section.present /\ content.section.valid

\* C16: a refresh that loads a day document whose timeBlocks section is missing
\* or is not valid JSON leaves the store with no block, whatever it held before
C16_EmptyOnBadSection ==
    [][(last'.op \in {"open", "refresh"} /\ currentDayFile' # Null
        /\ ~ Loadable(vault'[currentDayFile']))
       => timeBlocks' = <<>>]_vars


(***************************************************************************)
(* TimeBlockManager.updateTimeBlockTask                                     *)
(***************************************************************************)
\* block.tasks.findIndex(t => this.getTaskIdentifier(t) === oldTaskId), 0 for -1
TaskIndexOf(tasks, oldTaskId) ==
    FirstIndex({j \in 1..Len(tasks) : getTaskIdentifier(tasks[j]) = oldTaskId})

\* block.tasks[taskIndex] = {...newTask, status: NORMAL}, then saveTimeBlocks
ReplaceTask(w, b, taskIndex, newTask) ==
    SaveTimeBlocks([w EXCEPT !.timeBlocks =
        SeqSet(w.timeBlocks, b,
               [w.timeBlocks[b] EXCEPT !.val.tasks =
                   SeqSet(w.timeBlocks[b].val.tasks, taskIndex, ObjEntry(newTask, NORMAL))])])

UpdateFound(w, b, taskIndex, newTaskId) ==
    IF taskIndex = 0 \/ ~ MapHas(w.taskCache, newTaskId) THEN [w |-> w, threw |-> FALSE]
    ELSE ReplaceTask(w, b, taskIndex, MapGet(w.taskCache, newTaskId))

updateTimeBlockTask(w, oldTaskId, newTaskId, blockId) ==
    IF ~ MapHas(w.timeBlocks, blockId) THEN [w |-> w, threw |-> FALSE]
    ELSE UpdateFound(w, MapIndex(w.timeBlocks, blockId),
                     TaskIndexOf(MapGet(w.timeBlocks, blockId).tasks, oldTaskId), newTaskId)

\* the identifiers of the entries the store's blocks hold
StoreIds ==
    UNION {{getTaskIdentifier(timeBlocks[i].val.tasks[j]) : j \in 1..Len(timeBlocks[i].val.tasks)}
           : i \in 1..Len(timeBlocks)} \ {Null}

\* the user picks the right task for a reference in the fix dialog
UpdateTimeBlockTask ==
    /\ opened
    /\ budget > 0
    /\ \E blockId \in MapKeys(timeBlocks) \cup {GoneId},
          oldTaskId \in StoreIds \cup {GoneId},
          newTaskId \in MapKeys(taskCache) \cup {GoneId} :
          LET r == updateTimeBlockTask(World, oldTaskId, newTaskId, blockId)
          IN  /\ SetWorld(r.w)
              /\ last' = [op |-> "update", id |-> oldTaskId, block |-> blockId,
                          threw |-> r.threw, new |-> newTaskId]
    /\ Spend
    /\ UNCHANGED <<opened, now, passes, hourHeight, closures>>


(***************************************************************************)
(* A 'modify' notification that arrives while loadTasks awaits              *)
(***************************************************************************)
\* the contents an edit in the editor can give the document at path
EditedContents(w, path) ==
    IF path = DayPath
    THEN {[w.vault[path] EXCEPT !.section = section] :
            section \in {NoSection, GarbledSection} \ {w.vault[path].section}}
    ELSE {[w.vault[path] EXCEPT !.lines = lines] : lines \in EditedNotes(w.vault[path].lines)}

\* loadTasks' else branch resumed after the notification: the files of its
\* snapshot are processed, the handler has added path to modifiedFiles and
\* called debouncedRefresh, and this.modifiedFiles.clear() then runs
LoadThenModify(w, path, content) ==
    ClearModified([w |-> VaultModify(ProcessFiles(w, FilesToProcess(w), <<>>).w, path, content),
                   passes |-> ProcessFiles(w, FilesToProcess(w), <<>>).passes])

\* refreshView whose loadTasks is overtaken by the edit of a file outside its snapshot
refreshViewOvertaken(w, path, content, rnd) ==
    RefreshAfterTasks(LoadThenModify(loadScheduledTasks(w), path, content), rnd)

ModifyDuringLoad ==
    /\ opened
    /\ refreshPending
    /\ budget > 0
    /\ Len(taskCache) # 0
    /\ FilesToProcess(World) # <<>>
    /\ \E path \in DOMAIN vault, rnd \in 1..RndChoices :
          /\ \A i \in 1..Len(modifiedFiles) : modifiedFiles[i] # path
          /\ \E content \in EditedContents(World, path) :
                LET r == refreshViewOvertaken(TimerFired(World), path, content, rnd)
                IN  /\ SetWorld(r.w)
                    /\ passes' = r.passes
    /\ last' = Did("overtaken", Null, Null, FALSE)
    /\ Spend
    /\ UNCHANGED <<opened, now, hourHeight, closures>>

DayNext ==
    \/ Open
    \/ DebouncedRefresh
    \/ DropOnBlock
    \/ EditSection
    \/ UpdateTimeBlockTask
    \/ ModifyDuringLoad

\* a reference whose task is gone and whose text holds a dollar pair, as the
\* first save of the section (the append branch) writes it
RefDollars == [id |-> GoneId, text |-> TitleDollars]

\* a section with two blocks, the first referring to the note's first task
SectionOfTwo(refs) ==
    [present |-> TRUE, valid |-> TRUE,
     data |-> << [key |-> Block0,
                  val |-> [id |-> Block0, title |-> TitleT, startTime |-> 540,
                           endTime |-> 600, tasks |-> <<RefA>>]],
                 [key |-> Block1,
                  val |-> [id |-> Block1, title |-> TitleT, startTime |-> 600,
                           endTime |-> 660, tasks |-> refs]] >>]

DaySections ==
    SectionPool \cup {SectionWith(<<RefDollars, RefA>>),
                      SectionOfTwo(<<RefStale>>), SectionOfTwo(<<RefGone>>)}

DayInit ==
    /\ \E note \in NotePool, section \in DaySections, hasDay \in BOOLEAN :
          vault = IF hasDay
                  THEN [p \in {DayPath, NotePath} |->
                          IF p = DayPath THEN [lines |-> <<>>, section |-> section]
                          ELSE [lines |-> note, section |-> NoSection]]
                  ELSE [p \in {NotePath} |-> [lines |-> note, section |-> NoSection]]
    /\ taskCache = <<>>
    /\ lineTaskMap = <<>>
    /\ fileCache = <<>>
    /\ timeBlocks = <<>>
    /\ currentDayFile = Null
    /\ currentDate = 0
    /\ mouseUpListeners = 0
    /\ modifiedFiles = <<>>
    /\ refreshPending = FALSE
    /\ opened = FALSE
    /\ now = 1
    /\ budget = MaxOps
    /\ last = [op |-> "init", id |-> Null, block |-> Null, threw |-> FALSE]
    /\ passes = <<>>
    /\ hourHeight = DefaultHourHeight
    /\ closures = <<>>
    /\ burst = <<>>
    /\ creation = Idle

DaySpec == DayInit /\ [][DayNext]_vars

\* the files a refresh reconciled: those processFile ran on
Reconciled(ps) == {ps[k].file : k \in 1..Len(ps)}

\* C19: the refresh the debounce timer starts ends the burst (nothing stays
\* pending unless a new notification arrived meanwhile) and reconciles every
\* file of the vault named in the burst
C19_BurstReconciled ==
    [][(last'.op \in {"refresh", "overtaken"}) =>
          /\ last'.op = "refresh" => (~ refreshPending' /\ burst' = <<>>)
          /\ \A i \in 1..Len(burst) :
                burst[i] \in DOMAIN vault => burst[i] \in Reconciled(passes')]_vars


\* the block holds a TaskIdentity entry whose identifier is old
EntriesOf(block, old) ==
    {j \in 1..Len(block.tasks) :
        block.tasks[j].kind = "obj" /\ block.tasks[j].identifier = old}

\* after is before with the entry at position j of block b replaced by entry
ReplacedAt(before, after, b, j, entry) ==
    /\ Len(after) = Len(before)
    /\ \A i \in 1..Len(before) : i # b => after[i] = before[i]
    /\ after[b].key = before[b].key
    /\ after[b].val = [before[b].val EXCEPT !.tasks = after[b].val.tasks]
    /\ Len(after[b].val.tasks) = Len(before[b].val.tasks)
    /\ \A k \in 1..Len(before[b].val.tasks) :
          after[b].val.tasks[k] = IF k = j THEN entry ELSE before[b].val.tasks[k]

\* the reference {id, text} the document holds for a store entry
PersistedEntry(ref, task) ==
    /\ task.kind = "obj"
    /\ ref.id = task.identifier
    /\ ref.text = Trim(StripCheckbox(task.originalContent))

\* the document's timeBlocks section holds the store's blocks, with their tasks
StorePersisted(content, blocks) ==
    /\ Loadable(content)
    /\ Len(content.section.data) = Len(blocks)
    /\ \A i \in 1..Len(blocks) :
          /\ content.section.data[i].key = blocks[i].key
          /\ Len(content.section.data[i].val.tasks) = Len(blocks[i].val.tasks)
          /\ \A j \in 1..Len(blocks[i].val.tasks) :
                PersistedEntry(content.section.data[i].val.tasks[j], blocks[i].val.tasks[j])

UpdateApplies(blockId, old, new) ==
    /\ MapHas(timeBlocks, blockId)
    /\ EntriesOf(MapGet(timeBlocks, blockId), old) # {}
    /\ MapHas(taskCache, new)

\* C20: updateTimeBlockTask(old, new, blockId) on an existing block that holds
\* an entry old, with new registered, replaces that entry in place by the
\* registry's identity of new with status NORMAL, changes nothing else in the
\* store and writes the store to the day document; in every other case the
\* store and the documents are unchanged
C20_UpdateTaskReference ==
    [][(last'.op = "update") =>
          IF UpdateApplies(last'.block, last'.id, last'.new)
          THEN /\ \E j \in EntriesOf(MapGet(timeBlocks, last'.block), last'.id) :
                     ReplacedAt(timeBlocks, timeBlocks', MapIndex(timeBlocks, last'.block), j,
                                ObjEntry(MapGet(taskCache, last'.new), NORMAL))
               /\ currentDayFile # Null
               /\ StorePersisted(vault'[currentDayFile], timeBlocks')
          ELSE timeBlocks' = timeBlocks /\ vault' = vault]_vars


\* the reference resolves neither by its id nor by its text
Unresolved(tm, ref) ==
    /\ ~ (Truthy(ref.id) /\ MapHas(tm.taskCache, ref.id))
    /\ ~ (Truthy(ref.text) /\ findTasksByContent(tm, ref.text) # 0)

\* the entry loaded for a reference: a placeholder with the reference's text
\* when it is unresolved, the registry's task when its id is registered
EntryKept(entry, ref, tm) ==
    /\ entry.kind = "obj"
    /\ Unresolved(tm, ref) =>
          /\ entry.status = NOT_FOUND
          /\ Truthy(ref.text) => entry.originalContent = Unchecked \o <<32>> \o ref.text
    /\ (Truthy(ref.id) /\ MapHas(tm.taskCache, ref.id)) => entry.identifier = ref.id

ReferencesKept(data, blocks, tm) ==
    \A b \in 1..Len(data) :
        /\ MapHas(blocks, data[b].key)
        /\ Len(MapGet(blocks, data[b].key).tasks) = Len(data[b].val.tasks)
        /\ \A j \in 1..Len(data[b].val.tasks) :
              EntryKept(MapGet(blocks, data[b].key).tasks[j], data[b].val.tasks[j], tm)

IsPlaceholder(task) == task.kind = "obj" /\ task.status = NOT_FOUND

\* every placeholder of before is, in after, a placeholder at the same place
\* with the same identifier and text
PlaceholdersKept(before, after) ==
    \A b \in 1..Len(before) : \A j \in 1..Len(before[b].val.tasks) :
        IsPlaceholder(before[b].val.tasks[j]) =>
            /\ MapHas(after, before[b].key)
            /\ Len(MapGet(after, before[b].key).tasks) = Len(before[b].val.tasks)
            /\ MapGet(after, before[b].key).tasks[j] = before[b].val.tasks[j]

\* the store after saveTimeBlocks and a new loadTimeBlocks of the day document
SavedAndReloaded(w, rnd) ==
    loadTimeBlocks(w.timeBlocks, TM(w), SaveTimeBlocks(w).w.vault[w.currentDayFile], rnd)

\* C17: right after a load every block of the section has one entry per
\* persisted reference, in order; an unresolved reference is a NOT_FOUND
\* placeholder with the persisted text; and saving and loading again keeps
\* every placeholder with its text
C17_ReferencesNeverDropped ==
    (IsRefresh(last.op) /\ currentDayFile # Null /\ Loadable(vault[currentDayFile]))
    => /\ ReferencesKept(vault[currentDayFile].section.data, timeBlocks, TM(World))
       /\ \A rnd \in 1..RndChoices :
             PlaceholdersKept(timeBlocks, SavedAndReloaded(World, rnd))



\* the identifier a block entry holds: the string itself, or the identity's
HeldIdentifier(task) == IF task.kind = "str" THEN task.value ELSE task.identifier

\* the source document holds the line
LineWritten(content, line) == \E n \in 1..Len(content.lines) : content.lines[n] = line

\* a registered task whose line, still in its document, has no id marker is
\* dropped onto a block
DropsUnmarked ==
    /\ last'.op = "dropBlock"
    /\ MapHas(taskCache, last'.id)
    /\ ~ Includes(MapGet(taskCache, last'.id).originalContent, EmojiId)
    /\ MapGet(taskCache, last'.id).filePath \in DOMAIN vault
    /\ LineWritten(vault[MapGet(taskCache, last'.id).filePath],
                   MapGet(taskCache, last'.id).originalContent)

\* the registry holds an entry for the line
LineRegistered(cache, line) == \E k \in 1..Len(cache) : cache[k].val.originalContent = line

\* the block holds a reference that resolves by id to the registry entry of the line
HoldsDurable(block, cache, line) ==
    \E j \in 1..Len(block.tasks) :
        /\ MapHas(cache, HeldIdentifier(block.tasks[j]))
        /\ MapGet(cache, HeldIdentifier(block.tasks[j])).originalContent = line

\* C18: after the drop of a registered task without id marker onto a block, the
\* id-bearing line is in the task's document and in the registry (both are
\* done before the push and the save, so also when the save fails), and the
\* block holds a reference that resolves by id to the entry of that line
C18_DurableReference ==
    [][DropsUnmarked =>
          /\ LineWritten(vault'[MapGet(taskCache, last'.id).filePath],
                         addIdToTask(MapGet(taskCache, last'.id).originalContent))
          /\ LineRegistered(taskCache', addIdToTask(MapGet(taskCache, last'.id).originalContent))
          /\ MapHas(timeBlocks', last'.block)
          /\ HoldsDurable(MapGet(timeBlocks', last'.block), taskCache',
                          addIdToTask(MapGet(taskCache, last'.id).originalContent))]_vars


\* the document's timeBlocks section encodes the store: every block with its
\* id, title and times, every task as {id, text}
SectionEncodes(content, blocks) ==
    /\ StorePersisted(content, blocks)
    /\ \A i \in 1..Len(blocks) :
          /\ content.section.data[i].val.id = blocks[i].val.id
          /\ content.section.data[i].val.title = blocks[i].val.title
          /\ content.section.data[i].val.startTime = blocks[i].val.startTime
          /\ content.section.data[i].val.endTime = blocks[i].val.endTime

\* a step of createNewTimeBlock that added a block, and so called saveTimeBlocks
SavedAfterCreate ==
    /\ last'.op = "create"
    /\ currentDayFile # Null
    /\ Len(timeBlocks') = Len(timeBlocks) + 1

\* C21: a save leaves the day document outside its timeBlocks section (and every
\* other document) as it was, and leaves the document with a section that
\* encodes the store
C21_SaveFrame ==
    [][SavedAfterCreate =>
          /\ vault'[currentDayFile].lines = vault[currentDayFile].lines
          /\ \A p \in DOMAIN vault : p # currentDayFile => vault'[p] = vault[p]
          /\ SectionEncodes(vault'[currentDayFile], timeBlocks')]_vars


\* no task is held by two blocks of the store
HeldOnce(blocks) ==
    \A b1 \in 1..Len(blocks), b2 \in 1..Len(blocks) :
        b1 # b2 => HeldBy(blocks, b1) \cap HeldBy(blocks, b2) = {}

\* C22: a load (open, refresh) and an updateTimeBlockTask that start from a
\* store in which no task is held by two blocks end in such a store
C22_LoadAndUpdateKeepOneBlock ==
    [][(last'.op \in {"open", "refresh", "overtaken", "update"} /\ HeldOnce(timeBlocks))
       => HeldOnce(timeBlocks')]_vars


(***************************************************************************)
(* C23: the entry createTask updates is chosen by precedence               *)
(***************************************************************************)
\* the user edits the day document in the editor, which may hold checklist
\* lines as any document does; the vault raises 'modify'
EditDayNote ==
    /\ opened
    /\ budget > 0
    /\ \E lines \in EditedNotes(vault[DayPath].lines) :
          SetWorld(VaultModify(World, DayPath, [vault[DayPath] EXCEPT !.lines = lines]))
    /\ Spend
    /\ last' = Did("edit", Null, Null, FALSE)
    /\ UNCHANGED <<opened, now, passes, hourHeight, closures>>

UpsertNext ==
    \/ Open
    \/ DebouncedRefresh
    \/ UserEdit
    \/ EditDayNote

\* the day document starts with no checklist line or with one
DayLinePool == {<<>>, <<LineB>>}

UpsertInit ==
    /\ \E note \in NotePool, dayLines \in DayLinePool :
          vault = [p \in {DayPath, NotePath} |->
                      IF p = DayPath THEN [lines |-> dayLines, section |-> NoSection]
                      ELSE [lines |-> note, section |-> NoSection]]
    /\ taskCache = <<>>
    /\ lineTaskMap = <<>>
    /\ fileCache = <<>>
    /\ timeBlocks = <<>>
    /\ currentDayFile = Null
    /\ currentDate = 0
    /\ mouseUpListeners = 0
    /\ modifiedFiles = <<>>
    /\ refreshPending = FALSE
    /\ opened = FALSE
    /\ now = 1
    /\ budget = MaxOps
    /\ last = [op |-> "init", id |-> Null, block |-> Null, threw |-> FALSE]
    /\ passes = <<>>
    /\ hourHeight = DefaultHourHeight
    /\ closures = <<>>
    /\ burst = <<>>
    /\ creation = Idle

UpsertSpec == UpsertInit /\ [][UpsertNext]_vars

\* a refresh is due that processes the modified files, NextFile first
PassPending ==
    /\ opened
    /\ refreshPending
    /\ Len(taskCache) > 0
    /\ FilesToProcess(World) # <<>>

NextFile == Head(FilesToProcess(World))

\* the registry when the pass over NextFile reaches line n: the content has been
\* cached and createTask has run for the checklist lines above
RegistryAt(n) ==
    ProcessLines([TM(World) EXCEPT !.fileCache = FnSet(fileCache, NextFile, vault[NextFile])],
                 SubSeq(vault[NextFile].lines, 1, n - 1), NextFile, 1, {}).tm

SimilarEntries(tm, taskText) ==
    {i \in 1..Len(tm.taskCache) :
        areTasksSimilar(stripTaskMetadata(taskText),
                        stripTaskMetadata(tm.taskCache[i].val.originalContent))}

\* similar entries registered at exactly (filePath, lineNumber)
AtExactLine(tm, taskText, filePath, lineNumber) ==
    {i \in SimilarEntries(tm, taskText) :
        /\ LineKey(filePath, lineNumber) \in DOMAIN tm.lineTaskMap
        /\ tm.lineTaskMap[LineKey(filePath, lineNumber)] = tm.taskCache[i].key}

\* similar entries of the same file
InSameFile(tm, taskText, filePath) ==
    {i \in SimilarEntries(tm, taskText) : tm.taskCache[i].val.filePath = filePath}

\* similar entries of another file of which the cache holds no content with
\* their line: the snapshot lacks the line, or was dropped when the file changed
MovedFromOtherFile(tm, taskText, filePath) ==
    {i \in SimilarEntries(tm, taskText) :
        /\ tm.taskCache[i].val.filePath # filePath
        /\ \A p \in DOMAIN tm.fileCache :
              p = tm.taskCache[i].val.filePath =>
                  ~ FileIncludes(tm.fileCache[p], tm.taskCache[i].val.originalContent)}

FollowsPrecedence(tm, taskText, filePath, lineNumber, found) ==
    IF AtExactLine(tm, taskText, filePath, lineNumber) # {}
    THEN found \in AtExactLine(tm, taskText, filePath, lineNumber)
    ELSE IF InSameFile(tm, taskText, filePath) # {}
    THEN found \in InSameFile(tm, taskText, filePath)
    ELSE IF MovedFromOtherFile(tm, taskText, filePath) # {}
    THEN found \in MovedFromOtherFile(tm, taskText, filePath)
    ELSE found = 0

\* C23: in the pass the next refresh makes over its first file, the entry
\* findMatchingTask picks for a checklist line is one registered at exactly that
\* file and line when a similar one is, else a similar entry of the same file,
\* else a similar entry of another file whose cached content no longer holds its
\* line, and none (a new entry is created) only when no case matches
C23_UpsertPrecedence ==
    PassPending =>
        \A n \in 1..Len(vault[NextFile].lines) :
            IsChecklistLine(vault[NextFile].lines[n]) =>
                FollowsPrecedence(RegistryAt(n), vault[NextFile].lines[n], NextFile, n,
                                  findMatchingTask(RegistryAt(n), vault[NextFile].lines[n],
                                                   NextFile, n))

\* the pass is about to prefer the entry of the same file to a moved one
PrefersSameFile(n) ==
    /\ IsChecklistLine(vault[NextFile].lines[n])
    /\ AtExactLine(RegistryAt(n), vault[NextFile].lines[n], NextFile, n) = {}
    /\ MovedFromOtherFile(RegistryAt(n), vault[NextFile].lines[n], NextFile) # {}
    /\ findMatchingTask(RegistryAt(n), vault[NextFile].lines[n], NextFile, n)
           \in InSameFile(RegistryAt(n), vault[NextFile].lines[n], NextFile)

C23_Witness ==
    /\ PassPending
    /\ \E n \in 1..Len(vault[NextFile].lines) : PrefersSameFile(n)

(***************************************************************************)
(* C24: within a refresh the store is loaded after the files were processed *)
(***************************************************************************)
\* every checklist line of every document has an entry of its file in the registry
RegistryCoversFiles(documents, cache) ==
    \A p \in DOMAIN documents :
        \A n \in 1..Len(documents[p].lines) :
            IsChecklistLine(documents[p].lines[n]) =>
                \E i \in 1..Len(cache) :
                    /\ cache[i].val.filePath = p
                    /\ areTasksSimilar(stripTaskMetadata(documents[p].lines[n]),
                                       stripTaskMetadata(cache[i].val.originalContent))

\* the store after the step is the load of the day document against the
\* registry the step leaves
LoadedAgainstFinalRegistry ==
    currentDayFile' # Null =>
        \E rnd \in 1..RndChoices :
            timeBlocks' = loadTimeBlocks(timeBlocks,
                                         [taskCache |-> taskCache', lineTaskMap |-> lineTaskMap',
                                          fileCache |-> fileCache'],
                                         vault'[currentDayFile'], rnd)

\* C24: in every refresh loadTimeBlocks resolves the references against the
\* registry as processFile left it for every changed document, and that
\* registry lacks no task that is present in the files
C24_LoadAfterReconcile ==
    [][last'.op \in {"open", "refresh", "manual"} =>
          /\ LoadedAgainstFinalRegistry
          /\ RegistryCoversFiles(vault', taskCache')]_vars

(***************************************************************************)
(* C25: moving a block                                                     *)
(***************************************************************************)
\* closure i is in a move and no other gesture is active
OnlyDrags(i) ==
    /\ closures[i].isDragging
    /\ ~ closures[i].isResizing
    /\ \A j \in 1..Len(closures) : j # i => ~ IsActive(closures[j])

\* the start the pointer asks for, held at the boundaries of the day
ClampedStart(wanted, duration) ==
    IF wanted < 0 THEN 0
    ELSE IF wanted + duration > 1440 THEN 1440 - duration
    ELSE wanted

MovedTo(before, after, wanted) ==
    /\ after.id = before.id
    /\ after.title = before.title
    /\ after.tasks = before.tasks
    /\ after.endTime - after.startTime = before.endTime - before.startTime
    /\ (after.startTime - before.startTime) % 15 = 0
    /\ after.startTime = ClampedStart(wanted, before.endTime - before.startTime)

MoveAsClaimed(i) ==
    \E clientY \in PointerPool :
        MovedTo(MapGet(timeBlocks, closures[i].blockId),
                MapGet(timeBlocks', closures[i].blockId),
                QuarterTime(closures[i].dragStartTop + (clientY - closures[i].dragStartY),
                            hourHeight))

\* C25: a pointer move during a block move shifts startTime and endTime by the
\* same quantized delta and keeps the duration, the title and the tasks; a
\* position past 0 or past 24 leaves the block at that boundary; the pointer-up
\* that ends the move writes the store to the day document
C25_MoveShiftsAndClamps ==
    [][/\ last'.op = "move" => \A i \in 1..Len(closures) : OnlyDrags(i) => MoveAsClaimed(i)
       /\ (last'.op = "release" /\ \E i \in 1..Len(closures) : OnlyDrags(i))
              => SectionEncodes(vault'[currentDayFile], timeBlocks')]_vars

(***************************************************************************)
(* C26: resizing a block                                                   *)
(***************************************************************************)
\* the grabbed bound is where a pointer position puts it, or was left alone
\* because the position is not allowed
TopResized(before, after, wanted) ==
    /\ after.endTime = before.endTime
    /\ after.startTime = IF wanted >= 0 /\ wanted < before.endTime
                         THEN wanted ELSE before.startTime

BottomResized(before, after, wanted) ==
    /\ after.startTime = before.startTime
    /\ after.endTime = IF wanted <= 1440 /\ wanted > before.startTime
                       THEN wanted ELSE before.endTime

Resized(c, before, after, clientY) ==
    /\ after.id = before.id
    /\ after.title = before.title
    /\ after.tasks = before.tasks
    /\ IF c.resizeType = "top"
       THEN TopResized(before, after,
                       QuarterTime(c.resizeStartTop + (clientY - c.resizeStartY), hourHeight))
       ELSE BottomResized(before, after,
                          QuarterTime(c.resizeStartTop + c.resizeStartHeight
                                      + (clientY - c.resizeStartY), hourHeight))

ResizeAsClaimed(i) ==
    \E clientY \in PointerPool :
        Resized(closures[i], MapGet(timeBlocks, closures[i].blockId),
                MapGet(timeBlocks', closures[i].blockId), clientY)

\* C26: a pointer move during a resize changes only the bound of the grabbed
\* handle, leaves it alone when the position would make startTime >= endTime or
\* leave the day, and keeps the id, the title and the tasks; the pointer-up
\* that ends the resize writes the store to the day document
C26_ResizeOneBound ==
    [][/\ last'.op = "move"
            => \A i \in 1..Len(closures) : closures[i].isResizing => ResizeAsClaimed(i)
       /\ (last'.op = "release" /\ \E i \in 1..Len(closures) : closures[i].isResizing)
              => SectionEncodes(vault'[currentDayFile], timeBlocks')]_vars

(***************************************************************************)
(* C27: one gesture of a kind at a time                                    *)
(***************************************************************************)
\* the blocks whose element has its move flag, respectively its resize flag, set
DraggingBlocks == {closures[i].blockId : i \in {j \in 1..Len(closures) : closures[j].isDragging}}
ResizingBlocks == {closures[i].blockId : i \in {j \in 1..Len(closures) : closures[j].isResizing}}

\* C27: after every sequence of pointer-down, pointer-move and pointer-up events
\* at most one block has its move flag (isDragging) set and at most one block
\* has its resize flag (isResizing) set (block creation has the one flag
\* isCreatingTimeBlock of the view, so it cannot be active twice)
C27_OneGesturePerKind ==
    /\ Cardinality(DraggingBlocks) <= 1
    /\ Cardinality(ResizingBlocks) <= 1

(***************************************************************************)
(* C28: pointer-up outside the hour grid                                   *)
(***************************************************************************)
\* C28: a creation gesture whose pointer-up is over no cell of the hour grid
\* (and not inside a modal, which leaves the gesture as it is) adds no block to the store, writes no document, whatever the prompt returns,
\* and ends idle
C28_ReleaseOutsideCancels ==
    [][(last'.op = "mouseup" /\ ~ last'.modal /\ last'.current = NoCell) =>
          /\ timeBlocks' = timeBlocks
          /\ vault' = vault
          /\ creation' = Idle]_vars

(***************************************************************************)
(* C29: pointer-up inside a modal                                          *)
(***************************************************************************)
\* C29: while a block is being created, a pointer-up whose target is inside a
\* modal adds no block, changes no document and leaves the creation state as it
\* was, whatever a title prompt would have returned: none is opened
C29_ModalReleaseIgnored ==
    [][(last'.op = "mouseup" /\ last'.modal) =>
          /\ timeBlocks' = timeBlocks
          /\ vault' = vault
          /\ creation' = creation
          /\ creation'.isCreatingTimeBlock]_vars

\* a pointer-up inside a modal happened on a day with a document, with a prompt
\* that would have returned a title
C29_Witness ==
    /\ last.op = "mouseup"
    /\ last.modal
    /\ Truthy(last.title)
    /\ currentDayFile # Null
    /\ creation.isCreatingTimeBlock

HeldIds ==
    UNION {{EntryId(timeBlocks[b].val.tasks[j]) : j \in 1..Len(timeBlocks[b].val.tasks)} :
              b \in 1..Len(timeBlocks)}

\* an element rendered inside a block is dropped on a block or, with target Null,
\* on the unscheduled drop zone
DropHeld ==
    /\ opened
    /\ budget > 0
    /\ \E id \in HeldIds, target \in {timeBlocks[b].key : b \in 1..Len(timeBlocks)} \cup {Null} :
          /\ Truthy(id)
          /\ LET r == handleTaskDrop(World, id, target, target = Null)
             IN  /\ SetWorld(r.w)
                 /\ last' = Did("dropHeld", id, target, r.threw)
    /\ Spend
    /\ UNCHANGED <<opened, now, passes, hourHeight, closures>>

PlaceholderNext ==
    \/ Open
    \/ DebouncedRefresh
    \/ DropOnBlock
    \/ DropHeld

PlaceholderSpec == DayInit /\ [][PlaceholderNext]_vars

WithoutPlaceholders(block) ==
    [block EXCEPT !.tasks = SelectSeq(block.tasks, LAMBDA task : ~ IsPlaceholder(task))]

\* the fill percentage of every block is what it is without its placeholders
PlaceholdersCountZero(blocks) ==
    \A b \in 1..Len(blocks) :
        calculateBlockPercentage(blocks[b].val)
            = calculateBlockPercentage(WithoutPlaceholders(blocks[b].val))

\* C31: a drop that carries an identifier the registry does not hold, as the
\* identifier of a NOT_FOUND placeholder is, changes no block's tasks and writes
\* no document, and a placeholder adds 0 minutes to the fill percentage of its block
C31_PlaceholderInert ==
    [][/\ (last'.op = "dropHeld" /\ ~ MapHas(taskCache, last'.id))
             => timeBlocks' = timeBlocks /\ vault' = vault
       /\ PlaceholdersCountZero(timeBlocks')]_vars

\* the placeholder of a block was dropped on a block
C31_Witness ==
    /\ last.op = "dropHeld"
    /\ last.block # Null
    /\ ~ MapHas(taskCache, last.id)
    /\ \E b \in 1..Len(timeBlocks) : \E j \in 1..Len(timeBlocks[b].val.tasks) :
          /\ IsPlaceholder(timeBlocks[b].val.tasks[j])
          /\ timeBlocks[b].val.tasks[j].identifier = last.id
          /\ calculateBlockPercentage(timeBlocks[b].val).threw = FALSE

(***************************************************************************)
(* C32: parseTimeEstimate on bounded lines                                 *)
(***************************************************************************)
\* the tokens a line may carry after the marker: [n, unit] pairs, n = NoCell for
\* an absent token
DayTokens == {NoCell, 0, 1, 2}
HourTokens == {NoCell, 2, 10}
MinuteTokens == {NoCell, 3, 45}

Token(n, unit) == IF n = NoCell THEN <<>> ELSE ToDecimal(n) \o <<unit>>

\* the tokens that are present, joined by sep
RECURSIVE JoinTokens(_, _)
JoinTokens(tokens, sep) ==
    IF tokens = <<>> THEN <<>>
    ELSE IF Len(tokens) = 1 THEN Head(tokens)
    ELSE Head(tokens) \o sep \o JoinTokens(Tail(tokens), sep)

EstimateText(d, h, m, sep) ==
    JoinTokens(SelectSeq(<<Token(d, 100), Token(h, 104), Token(m, 109)>>,
                         LAMBDA t : t # <<>>), sep)

EstimateLine(marker, d, h, m, sep) ==
    LineC \o <<32>> \o (IF marker THEN EmojiEstimate \o <<32>> ELSE <<>>)
          \o EstimateText(d, h, m, sep)

\* TaskParser.parseTask on a line built from the tokens
ParseTask ==
    /\ last.op = "init"
    /\ \E marker \in BOOLEAN, d \in DayTokens, h \in HourTokens, m \in MinuteTokens,
          sep \in {<<>>, <<32>>} :
          last' = [op |-> "estimate", marker |-> marker, d |-> d, h |-> h, m |-> m,
                   text |-> EstimateLine(marker, d, h, m, sep),
                   result |-> parseTask(EstimateLine(marker, d, h, m, sep)).timeEstimate]
    /\ Unchanged

ParseSpec == FunctionInit /\ [][ParseTask]_vars

Counted(n) == IF n = NoCell THEN 0 ELSE n

\* C32: for a line with the estimate marker followed by day, hour and minute
\* tokens in that order, totalMinutes = days*1440 + hours*60 + minutes with absent
\* tokens counted as 0; a line without the marker, and a line with the marker
\* followed by none of the three tokens, has no estimate
C32_ParseTimeEstimate ==
    last.op = "estimate" =>
        IF last.marker /\ (last.d # NoCell \/ last.h # NoCell \/ last.m # NoCell)
        THEN /\ last.result.present
             /\ last.result.days = Counted(last.d)
             /\ last.result.hours = Counted(last.h)
             /\ last.result.minutes = Counted(last.m)
             /\ last.result.totalMinutes
                   = Counted(last.d) * 1440 + Counted(last.h) * 60 + Counted(last.m)
        ELSE ~ last.result.present

(***************************************************************************)
(* C33: no modify notification is lost                                     *)
(***************************************************************************)
\* no processFile has read the document as it is now: the handler evicted its
\* snapshot, or the snapshot is older than the document
NotYetRead(p) == p \notin DOMAIN fileCache \/ fileCache[p] # vault[p]

\* the refresh that is due will run processFile on p
WillBeProcessed(p) ==
    /\ refreshPending
    /\ Len(taskCache) = 0 \/ \E i \in 1..Len(modifiedFiles) : modifiedFiles[i] = p

\* C33: a document whose modify notification has not been followed by a
\* processFile that read it is always one the pending refresh will process,
\* also when the notification arrived while loadTasks of an earlier refresh was
\* awaiting its reads
C33_NotificationNotLost ==
    opened => \A p \in DOMAIN vault : NotYetRead(p) => WillBeProcessed(p)

(***************************************************************************)
(* C34: day navigation                                                     *)
(***************************************************************************)
\* how far from today the navigation buttons are followed
MaxDays == 1

\* the buttons Previous, Today and Next: currentDate is set, the caches are
\* cleared and refreshView runs
NavigateDay ==
    /\ opened
    /\ budget > 0
    /\ \E date \in {currentDate - 1, 0, currentDate + 1} \cap ((0 - MaxDays)..MaxDays),
          rnd \in 1..RndChoices :
          LET r == refreshView(clearCaches([World EXCEPT !.currentDate = date]), rnd)
          IN  /\ SetWorld(r.w)
              /\ passes' = r.passes
              /\ last' = Did("navigate", Null, DailyNote(date), FALSE)
    /\ Spend
    /\ UNCHANGED <<opened, now, hourHeight, closures>>

NavigateNext ==
    \/ Open
    \/ DebouncedRefresh
    \/ NavigateDay
    \/ CreateBlock

\* the section of tomorrow's daily note: the block b1
SectionNextDay ==
    [present |-> TRUE, valid |-> TRUE,
     data |-> << [key |-> Block1,
                  val |-> [id |-> Block1, title |-> TitleT, startTime |-> 600,
                           endTime |-> 660, tasks |-> <<>>]] >>]

NavigateInit ==
    /\ \E section \in {NoSection, SectionWith(<<>>), SectionWith(<<RefA>>)},
          nextDay \in {NoSection, SectionNextDay}, hasNextDay \in BOOLEAN :
          vault = [p \in {DayPath, NotePath} \cup (IF hasNextDay THEN {NextDayPath} ELSE {}) |->
                     IF p = DayPath THEN [lines |-> <<>>, section |-> section]
                     ELSE IF p = NextDayPath THEN [lines |-> <<>>, section |-> nextDay]
                     ELSE [lines |-> <<LineA>>, section |-> NoSection]]
    /\ taskCache = <<>>
    /\ lineTaskMap = <<>>
    /\ fileCache = <<>>
    /\ timeBlocks = <<>>
    /\ currentDayFile = Null
    /\ currentDate = 0
    /\ mouseUpListeners = 0
    /\ modifiedFiles = <<>>
    /\ refreshPending = FALSE
    /\ opened = FALSE
    /\ now = 1
    /\ budget = MaxOps
    /\ last = [op |-> "init", id |-> Null, block |-> Null, threw |-> FALSE]
    /\ passes = <<>>
    /\ hourHeight = DefaultHourHeight
    /\ closures = <<>>
    /\ burst = <<>>
    /\ creation = Idle

NavigateSpec == NavigateInit /\ [][NavigateNext]_vars

\* the ids of the blocks a document's section persists
PersistedBlockIds(content) ==
    IF Loadable(content)
    THEN {content.section.data[i].key : i \in 1..Len(content.section.data)}
    ELSE {}

StoreBlockIds(blocks) == {blocks[i].key : i \in 1..Len(blocks)}

DailyNotes(documents) == {DayPath, NextDayPath} \cap DOMAIN documents

\* C34: after a navigation and its refresh the store holds exactly the blocks
\* persisted in the document of the day shown, and no save writes a block of
\* one day into the document of another day
C34_StoreFollowsDay ==
    [][/\ (last'.op = "navigate" /\ currentDayFile' # Null)
             => StoreBlockIds(timeBlocks') = PersistedBlockIds(vault'[currentDayFile'])
       /\ \A p \in DailyNotes(vault'), q \in DailyNotes(vault') :
             p # q => PersistedBlockIds(vault'[p]) \cap PersistedBlockIds(vault'[q])
                         \subseteq PersistedBlockIds(vault[p]) \cap PersistedBlockIds(vault[q])]_vars

(***************************************************************************)
(* C35: one registry entry per checklist line                              *)
(***************************************************************************)
\* every checklist line of the file has an entry at its path and line number
\* (entries of different lines differ, an entry having one line number)
LinesRegistered(filePath, lines, cache) ==
    \A k \in 1..Len(lines) :
       IsChecklistLine(lines[k]) =>
          \E i \in 1..Len(cache) : /\ cache[i].val.filePath = filePath
                                   /\ cache[i].val.lineNumber = k

\* C35: after a processFile pass over a file, every checklist line of the file
\* has its own registry entry with that file's path and that line's number,
\* also when lines of the file are identical or similar
C35_EveryLineRegistered ==
    [][last'.op \in {"open", "refresh", "manual"} =>
          \A i \in 1..Len(passes') :
             LinesRegistered(passes'[i].file, SplitLines(vault'[passes'[i].file]),
                             passes'[i].after)]_vars

(***************************************************************************)
(* C36: a pass over one file and the entries of another                    *)
(***************************************************************************)
\* the entry is in the registry under the same key with its path and content
KeepsHome(cache, entry) ==
    \E i \in 1..Len(cache) : /\ cache[i].key = entry.key
                             /\ cache[i].val.filePath = entry.val.filePath
                             /\ cache[i].val.originalContent = entry.val.originalContent

\* the pass left alone every entry of another document that still holds its line
OthersKeepHome(pass, documents) ==
    \A i \in 1..Len(pass.before) :
       (/\ pass.before[i].val.filePath # pass.file
        /\ pass.before[i].val.filePath \in DOMAIN documents
        /\ FileIncludes(documents[pass.before[i].val.filePath],
                        pass.before[i].val.originalContent))
          => KeepsHome(pass.after, pass.before[i])

\* C36: a processFile pass over a file never re-homes an entry of another file
\* whose line is still in that file: the entry keeps its path and content, also
\* when the other file's cached content was evicted and not yet read again
C36_NoRehomingOfPresentLines ==
    [][last'.op = "refresh" =>
          \A i \in 1..Len(passes') : OthersKeepHome(passes'[i], vault')]_vars

(***************************************************************************)
(* C37: a pointer-down while the mouseup listener awaits createNewTimeBlock *)
(***************************************************************************)
\* the mouseup listener after its await: isCreatingTimeBlock = false,
\* timeBlockStart = null
listenerAfterAwait(w) == [w EXCEPT !.creation = Idle]

\* the listener has called createNewTimeBlock, which is awaiting the vault inside
\* saveTimeBlocks, when the pointer goes down on a cell; the save then completes
\* and the listener runs on
mouseUpOvertaken(w, current, title, time, cell) ==
    listenerAfterAwait(slotMouseDown(documentMouseUp(w, FALSE, current, title, time).w, cell))

\* createNewTimeBlock awaits the vault only when there is a day document and the
\* prompt returned a title; the case followed is the one in which saveTimeBlocks
\* completes
MouseDownDuringSave ==
    /\ opened
    /\ budget > 0
    /\ creation.isCreatingTimeBlock /\ creation.timeBlockStart # NoCell
    /\ currentDayFile # Null
    /\ \E current \in CellPool \cup {NoCell}, title \in TitlePool, cell \in CellPool :
          /\ ~ documentMouseUp(World, FALSE, current, title, now).threw
          /\ SetWorld(mouseUpOvertaken(World, current, title, now, cell))
          /\ last' = [op |-> "mousedownInSave", id |-> Null,
                      block |-> BlockIdPrefix \o ToDecimal(now), threw |-> FALSE,
                      start |-> cell]
    /\ now' = now + 1
    /\ Spend
    /\ UNCHANGED <<opened, passes, hourHeight, closures>>

ReentryNext ==
    \/ Open
    \/ DebouncedRefresh
    \/ SlotMouseDown
    \/ DocumentMouseUp
    \/ MouseDownDuringSave

ReentrySpec == CreationInit /\ [][ReentryNext]_vars

Dragging(start) == [isCreatingTimeBlock |-> TRUE, timeBlockStart |-> start]

\* C37: a creation gesture stays in dragging(start) until the next pointer-up;
\* a pointer-down made while an earlier gesture's save is awaited leaves the
\* machine in dragging(start) when that gesture's listener completes
C37_GestureNotReset ==
    [][/\ (creation.isCreatingTimeBlock
             /\ last'.op \notin {"mouseup", "mousedown", "mousedownInSave"})
          => creation' = creation
       /\ last'.op = "mousedownInSave" => creation' = Dragging(last'.start)]_vars

(***************************************************************************)
(* C38: two handlers rewriting the day document at the same time           *)
(***************************************************************************)
\* saveTimeBlocks after its read: the section is written into the content the
\* read returned
saveTimeBlocksFrom(w, content) ==
    VaultModify(w, w.currentDayFile, saveTimeBlocks(w.timeBlocks, content))

\* createNewTimeBlock and the click handler of a checkbox both read the day
\* document before either writes it; saveLast says whose vault.modify comes last
overlappingWrites(w, timeBlock, taskIdentity, saveLast) ==
    IF saveLast
    THEN saveTimeBlocksFrom(ToggleLine([w EXCEPT !.timeBlocks =
                                           MapSet(w.timeBlocks, timeBlock.id, timeBlock)],
                                       taskIdentity, w.vault[w.currentDayFile],
                                       taskIdentity.lineNumber),
                            w.vault[w.currentDayFile])
    ELSE ToggleLine(AddBlock(w, timeBlock).w, taskIdentity, w.vault[w.currentDayFile],
                    taskIdentity.lineNumber)

OverlappingWrites ==
    /\ opened
    /\ budget > 0
    /\ currentDayFile # Null
    /\ ~ SaveThrows(timeBlocks)
    /\ \E i \in 1..Len(taskCache), title \in TitlePool, saveLast \in BOOLEAN :
          /\ taskCache[i].val.filePath = currentDayFile
          /\ SetWorld(overlappingWrites(World,
                                        NewTimeBlock(BlockIdPrefix \o ToDecimal(now), title, 0, 0),
                                        taskCache[i].val, saveLast))
          /\ last' = [op |-> "overlap", id |-> taskCache[i].val.identifier,
                      block |-> BlockIdPrefix \o ToDecimal(now), threw |-> FALSE,
                      line |-> taskCache[i].val.lineNumber, title |-> title]
    /\ now' = now + 1
    /\ Spend
    /\ UNCHANGED <<opened, passes, hourHeight, closures>>

OverlapNext ==
    \/ Open
    \/ DebouncedRefresh
    \/ CreateBlock
    \/ CheckboxClick
    \/ OverlappingWrites

OverlapInit ==
    /\ \E section \in {NoSection, SectionWith(<<>>), SectionWith(<<RefA>>)},
          dayLines \in {<<LineC>>, <<LineA, LineC>>} :
          vault = [p \in {DayPath, NotePath} |->
                      IF p = DayPath THEN [lines |-> dayLines, section |-> section]
                      ELSE [lines |-> <<LineA>>, section |-> NoSection]]
    /\ taskCache = <<>>
    /\ lineTaskMap = <<>>
    /\ fileCache = <<>>
    /\ timeBlocks = <<>>
    /\ currentDayFile = Null
    /\ currentDate = 0
    /\ mouseUpListeners = 0
    /\ modifiedFiles = <<>>
    /\ refreshPending = FALSE
    /\ opened = FALSE
    /\ now = 1
    /\ budget = MaxOps
    /\ last = [op |-> "init", id |-> Null, block |-> Null, threw |-> FALSE]
    /\ passes = <<>>
    /\ hourHeight = DefaultHourHeight
    /\ closures = <<>>
    /\ burst = <<>>
    /\ creation = Idle

OverlapSpec == OverlapInit /\ [][OverlapNext]_vars

\* the line of the document was toggled as the click handler toggles it
LineToggled(before, after, n) ==
    /\ n >= 1 /\ n <= Len(before.lines) /\ Len(after.lines) = Len(before.lines)
    /\ after.lines[n] = ToggledLine(before.lines[n])

\* C38: when a save of the schedule and a checkbox toggle overlap on the day
\* document, the document afterwards holds both the saved schedule and the
\* toggled line
C38_NoLostUpdate ==
    [][(last'.op = "overlap" /\ last'.title = TitleT) =>
          /\ SectionEncodes(vault'[currentDayFile], timeBlocks')
          /\ LineToggled(vault[currentDayFile], vault'[currentDayFile], last'.line)]_vars

(***************************************************************************)
(* C39: a block holds a task once                                          *)
(***************************************************************************)
NoTaskTwice(blocks) ==
    \A b \in 1..Len(blocks) :
       \A j \in 1..Len(blocks[b].val.tasks), k \in 1..Len(blocks[b].val.tasks) :
          j # k => EntryId(blocks[b].val.tasks[j]) # EntryId(blocks[b].val.tasks[k])

\* the drop was made onto a block that held the task
DroppedOnHolder ==
    /\ last'.op = "dropBlock"
    /\ MapHas(timeBlocks, last'.block)
    /\ last'.id \in HeldBy(timeBlocks, MapIndex(timeBlocks, last'.block))

\* C39: no block's tasks hold the same identifier twice, and a drop of a task
\* onto the block that holds it leaves the block's tasks as they were, whether
\* the task is held as a loaded TaskIdentity or was added by an earlier drop
C39_NoDuplicateInBlock ==
    [][/\ NoTaskTwice(timeBlocks) => NoTaskTwice(timeBlocks')
       /\ DroppedOnHolder =>
             MapGet(timeBlocks', last'.block).tasks = MapGet(timeBlocks, last'.block).tasks]_vars

(***************************************************************************)
(* C40: one mouseup, many listeners                                        *)
(***************************************************************************)
\* one document mouseup listener; prompts counts the title prompts opened.  The
\* listener acts only while a block is being created, and createNewTimeBlock
\* resets that state before its first await, so before the next listener runs
ListenerRan(r, call) ==
    [w |-> call.w, threw |-> r.threw \/ call.threw,
     prompts |-> r.prompts + (IF r.w.currentDayFile = Null THEN 0 ELSE 1)]

mouseUpListenerUnguarded(r, inModal, current, title, time) ==
    IF inModal THEN r
    ELSE ListenerRan(r, documentMouseUp(r.w, inModal, current, title, time))

mouseUpListener(r, inModal, current, title, time) ==
    IF ~ (r.w.creation.isCreatingTimeBlock /\ r.w.creation.timeBlockStart # NoCell) \/ inModal
    THEN r
    ELSE ListenerRan(r, documentMouseUp(r.w, inModal, current, title, time))

\* the mouseup event reaches every listener the document has, in the order they
\* were added; Date.now() advances from one listener to the next
RECURSIVE dispatchMouseUp(_, _, _, _, _, _)
dispatchMouseUp(r, n, inModal, current, title, time) ==
    IF n = 0 THEN r
    ELSE dispatchMouseUp(mouseUpListener(r, inModal, current, title, time), n - 1,
                         inModal, current, title, time + 1)

MouseUpDispatched ==
    /\ opened
    /\ budget > 0
    /\ creation.isCreatingTimeBlock /\ creation.timeBlockStart # NoCell
    /\ \E inModal \in BOOLEAN, current \in CellPool \cup {NoCell}, title \in PromptPool :
          /\ inModal => current = NoCell
          /\ LET r == dispatchMouseUp([w |-> World, threw |-> FALSE, prompts |-> 0],
                                      mouseUpListeners, inModal, current, title, now)
             IN  /\ SetWorld(r.w)
                 /\ last' = [op |-> "mouseupAll", id |-> Null,
                             block |-> BlockIdPrefix \o ToDecimal(now), threw |-> r.threw,
                             title |-> title, modal |-> inModal, prompts |-> r.prompts]
    /\ now' = now + mouseUpListeners
    /\ Spend
    /\ UNCHANGED <<opened, passes, hourHeight, closures>>

ListenerNext ==
    \/ Open
    \/ DebouncedRefresh
    \/ ManualRefresh
    \/ SlotMouseDown
    \/ MouseUpDispatched

ListenerSpec == CreationInit /\ [][ListenerNext]_vars

\* a gesture was completed outside a modal with a title, on a day with a document
GestureCompleted ==
    /\ last'.op = "mouseupAll"
    /\ ~ last'.modal
    /\ Truthy(last'.title)
    /\ currentDayFile # Null

\* C40: one creation gesture with one supplied title adds exactly one block to
\* the store and opens exactly one title prompt, however many refreshView calls
\* have each added a mouseup listener to the document
C40_OneBlockPerGesture ==
    [][GestureCompleted =>
          /\ Len(timeBlocks') = Len(timeBlocks) + 1
          /\ last'.prompts = 1]_vars

\* a gesture was completed when several listeners were registered
C40_Witness ==
    /\ last.op = "mouseupAll"
    /\ ~ last.modal
    /\ Truthy(last.title)
    /\ last.prompts = 1
    /\ mouseUpListeners >= 2
    /\ MapHas(timeBlocks, last.block)

=============================================================================
